---- MODULE Spec2Model ----
(***************************************************************************)
(* Model of the PharmaBoost content pipeline:                              *)
(*   - run_seo_pipeline_stream (app/use_cases.py): the generate -> audit   *)
(*     -> refine quality loop of one product, an async generator of SSE    *)
(*     chunks;                                                             *)
(*   - batch_process_stream.event_stream and its worker                    *)
(*     (api_automatizada.py): the batch coordinator, one worker task per   *)
(*     spreadsheet row, a row semaphore and an asyncio.Queue;              *)
(*   - _execute_prompt_with_backoff (app/use_cases.py): the retry loop     *)
(*     around one model call.                                              *)
(* Spec        : one run of the quality loop, consumed chunk by chunk.     *)
(* SpecBatch   : a batch of rows, each worker driving its own run.         *)
(* SpecBackoff : one call of _execute_prompt_with_backoff.                 *)
(***************************************************************************)
EXTENDS Integers, Sequences, FiniteSets, Bags, TLC

VARIABLES
    pl,         \* run id -> locals of one run_seo_pipeline_stream generator
    stream,     \* Spec: the chunks the single run has yielded to its consumer
    wk,         \* row -> locals of the worker task of that row
    sem,        \* free permits of the row semaphore
    queue,      \* the asyncio.Queue between the workers and event_stream
    counter,    \* processed_counter[0]
    summary,    \* the summary dict (success / skipped / errors)
    resultados, \* resultados_finais (the SKUs of the appended results)
    es,         \* locals of the event_stream generator of the batch
    yielded,    \* what event_stream has yielded so far
    bk,         \* locals of one call of _execute_prompt_with_backoff
    ag,         \* locals of one call of an agent (_run_*_agent)
    ex,         \* one text and what _extract_json_from_string returns for it
    ledger,     \* the records of the strategy ledger file
    rank,       \* the StrategyManager call being made, then its outcome
    memory,     \* the entries of the success memory file
    saves,      \* the entries _save_success_to_memory has written, in order
    mr,         \* locals of one run_merchant_recovery_pipeline call
    fz,         \* one call of _finalize_for_vtex: its arguments and result
    gs,         \* google_search_limiter and the threads that call the searches
    rp          \* locals of the event_stream generator of reprocess_items

plVars == <<pl, stream>>
batchVars == <<wk, sem, queue, counter, summary, resultados, es, yielded>>
extVars == <<mr, fz, gs, rp>>
libVars == <<ag, ex, ledger, rank, memory, saves, extVars>>
vars ==
    <<pl, stream, wk, sem, queue, counter, summary, resultados, es, yielded, bk,
      ag, ex, ledger, rank, memory, saves, mr, fz, gs, rp>>

(***************************************************************************)
(* Bounds of the model and constants of the program.                       *)
(***************************************************************************)
\* the row semaphore's permits; the program sets 50 (api_automatizada.py:42),
\* the model instantiates the cap below the number of rows
MAX_CONCURRENT_REQUESTS == 2
\* chunks waiting in the queue (the program's queue is unbounded)
MaxQueue == 2

\* the largest max_retries a call of _execute_prompt_with_backoff is given (the
\* default is 5; the wait reaches its cap at the sixth sleep)
MaxRetries == 7

MIN_SCORE_TARGET == 95
MAX_ATTEMPTS == 2
NoScore == -1
\* wait_time = 2 and min(wait_time * 2, 60) of _execute_prompt_with_backoff
\* (lines 134 and 154)
InitialWait == 2
MaxWait == 60
\* DOWNLOAD_SEMAPHORE = asyncio.Semaphore(10) (api_automatizada.py:43)
DownloadPermits == 10

None == "None"

\* total_score values an auditor answers with: below the initial highest_score,
\* the fallback 0, just below and exactly at the target
ScoreVals == {-2, -1, 0, 94, 95}

(***************************************************************************)
(* The answers of the collaborators of one run (the test doubles).         *)
(*   ptype : product_type                                                  *)
(*   bula  : product_info carries a non-empty bula_text                    *)
(*   gen   : the generator agent: a content, None, or it raises            *)
(*   ref   : the refiner's model call: a new content, "None" (no content   *)
(*           extracted: the agent falls back to previous_json), or raises  *)
(*   a1,a2 : the auditor's answer at attempt 1 and 2: kind "num" with a    *)
(*           numeric total_score, "bad" (a total_score that is no number), *)
(*           or "raise"                                                    *)
(***************************************************************************)
Audits ==
    [kind : {"num"}, val : ScoreVals] \cup [kind : {"bad", "raise"}, val : {0}]

Scripts ==
    [ptype : {"medicine", "beauty", "other"}, bula : BOOLEAN,
     gen : {"A", None, "raise"}, ref : {"B", None, "raise"},
     a1 : Audits, a2 : Audits]

(***************************************************************************)
(* SSE chunks: _send_event(event_type, data).                              *)
(***************************************************************************)
\* value: the number an event carries (a score, or the progress counter)
Chunk(kind, level, tag, value, content, sku) ==
    [kind |-> kind, level |-> level, tag |-> tag, value |-> value,
     content |-> content, sku |-> sku]

NoChunk == Chunk("none", "", "", 0, None, 0)
LogChunk(tag, level) == Chunk("log", level, tag, 0, None, 0)
ScoreChunk(audit) == Chunk("log", "info", "score", audit.val, None, 0)
ErrorChunk == Chunk("error", "error", "critical", 0, None, 0)

\* SeoOptimizerAgent._finalize_for_vtex: a placeholder for an empty or missing
\* html_content, the cleaned html otherwise
HtmlOf(content) == IF content = "A" THEN "html" ELSE ""
FinalizeForVtex(html) == IF html = "" THEN "placeholder" ELSE "clean_" \o html

\* final_data_for_review of the done event
DoneChunk(score, content) ==
    [kind |-> "done", level |-> "", tag |-> FinalizeForVtex(HtmlOf(content)),
     value |-> score, content |-> content, sku |-> 0]

(***************************************************************************)
(* _execute_prompt_with_backoff(prompt, max_retries, timeout): the locals  *)
(* of one call.                                                            *)
(*   attempt   : the value of the for loop's variable (0-based)            *)
(*   wait_time : the seconds the next time.sleep lasts                     *)
(*   last      : the outcome of the latest generate_content call           *)
(*   nCalls    : generate_content calls made so far; the text a call       *)
(*               answers with is identified by the call's number           *)
(*   sleeps    : the durations of the time.sleep calls made so far         *)
(*   result    : the value returned (some = FALSE: None)                    *)
(***************************************************************************)
\* what one generate_content call does: a response with non-empty text, a
\* response whose text is empty or missing, one of the three exceptions the
\* first handler names, or any other exception
Outcomes == {"text", "empty", "DeadlineExceeded", "ResourceExhausted",
             "ServiceUnavailable", "other"}

NoResult == [some |-> FALSE, text |-> 0]

InitBackoff(max_retries) ==
    [pc |-> "loop", max_retries |-> max_retries, attempt |-> 0,
     wait_time |-> InitialWait, last |-> "", nCalls |-> 0, sleeps |-> <<>>,
     result |-> NoResult]

\* mutant: the loop makes one call more than max_retries
HasBudgetInclusive(attempt, max_retries) == attempt <= max_retries
\* line 142: for attempt in range(max_retries)
HasBudget(attempt, max_retries) == attempt < max_retries

\* mutant: every exception is retried
TransientAny(outcome) == outcome # "text"
\* lines 148-151: an empty response raises ServiceUnavailable itself, which the
\* handler of line 151 catches with the other two
Transient(outcome) ==
    outcome \in {"empty", "DeadlineExceeded", "ResourceExhausted", "ServiceUnavailable"}

\* mutant: the wait doubles without a cap
NextWaitUncapped(wait_time) == wait_time * 2
\* line 154
NextWait(wait_time) == IF wait_time * 2 < MaxWait THEN wait_time * 2 ELSE MaxWait

\* lines 143-157: one generate_content call and the handler it ends in, up to
\* the time.sleep or the return
CallModel(b, outcome) ==
    LET c == [b EXCEPT !.nCalls = @ + 1, !.last = outcome] IN
    CASE outcome = "text" ->
            [c EXCEPT !.pc = "returned", !.result = [some |-> TRUE, text |-> c.nCalls]]
      [] Transient(outcome) -> [c EXCEPT !.pc = "sleep"]
      [] OTHER -> [c EXCEPT !.pc = "returned", !.result = NoResult]

\* lines 153-154: the sleep ends, the wait doubles, the loop takes its next value
SleepDone(b) ==
    [b EXCEPT !.pc = "loop", !.sleeps = Append(@, b.wait_time),
              !.wait_time = NextWait(@), !.attempt = @ + 1]

\* lines 158-159: the loop ran out
GiveUp(b) == [b EXCEPT !.pc = "returned", !.result = NoResult]

IdleBackoff == bk = [pc |-> "idle"]

\* no agent is being called, no text is being extracted, and the ledger and
\* memory files do not exist yet
IdleAgent == ag = [pc |-> "idle"]
IdleExtract == ex = [pc |-> "idle"]
IdleLedger == ledger = <<>> /\ rank = [pc |-> "idle"]
IdleMemory == memory = <<>> /\ saves = <<>>
IdleMerchant == mr = [pc |-> "idle"]
IdleFinalize == fz = [pc |-> "idle"]
IdleSearch == gs = [pc |-> "idle"]
IdleReprocess == rp = [pc |-> "idle"]
IdleExt == IdleMerchant /\ IdleFinalize /\ IdleSearch /\ IdleReprocess
IdleLib == IdleAgent /\ IdleExtract /\ IdleLedger /\ IdleMemory /\ IdleExt

(***************************************************************************)
(* _extract_json_from_string(text). A text is a sequence of tokens:        *)
(*   "{" "}" ":"  the characters themselves                                *)
(*   "q"          a double quote                                           *)
(*   "v"          a number literal                                         *)
(*   "x"          a letter                                                 *)
(*   "w"          a space                                                  *)
(*   "c"          a control character below 32 other than \n \t \r         *)
(*   "F"          three backticks                                          *)
(*   "J"          three backticks followed by json                         *)
(* The object json.loads returns is identified by the tokens of its text   *)
(* without the spaces between them.                                        *)
(***************************************************************************)
NoObject == [kind |-> "none", obj |-> <<>>]
SomeObject(obj) == [kind |-> "obj", obj |-> obj]
Raises == [kind |-> "raised", obj |-> <<>>]

\* \s* from position i on: the first position that holds no space
RECURSIVE SkipWs(_, _)
SkipWs(t, i) == IF i <= Len(t) /\ t[i] = "w" THEN SkipWs(t, i + 1) ELSE i

\* json.loads: a string literal starting at i; the position after it, 0 if it
\* does not end
RECURSIVE StrEnd(_, _)
StrEnd(t, i) ==
    IF i > Len(t) THEN 0 ELSE IF t[i] = "q" THEN i + 1 ELSE StrEnd(t, i + 1)

\* json.loads: an object / a value starting at i; the position after it, 0 on a
\* syntax error
RECURSIVE ParseObject(_, _)
ParseValue(t, i) ==
    IF i > Len(t) THEN 0
    ELSE CASE t[i] = "v" -> i + 1
           [] t[i] = "q" -> StrEnd(t, i + 1)
           [] t[i] = "{" -> ParseObject(t, i)
           [] OTHER -> 0

ParseObject(t, i) ==
    LET a == SkipWs(t, i + 1) IN
    IF a > Len(t) THEN 0
    ELSE IF t[a] = "}" THEN a + 1
    ELSE IF t[a] # "q" THEN 0
    ELSE LET k == StrEnd(t, a + 1)
             b == SkipWs(t, k)
         IN  IF k = 0 \/ b > Len(t) \/ t[b] # ":" THEN 0
             ELSE LET v == ParseValue(t, SkipWs(t, b + 1))
                      d == SkipWs(t, v)
                  IN  IF v = 0 \/ d > Len(t) \/ t[d] # "}" THEN 0 ELSE d + 1

\* json.loads accepts the text: one object, spaces around it allowed
Parses(t) ==
    LET a == SkipWs(t, 1) IN
    /\ a <= Len(t) /\ t[a] = "{"
    /\ LET e == ParseObject(t, a) IN e # 0 /\ SkipWs(t, e) = Len(t) + 1

\* the object of a text that parses: its tokens, the spaces outside string
\* literals dropped
RECURSIVE Canon(_, _)
Canon(t, inString) ==
    IF t = <<>> THEN <<>>
    ELSE LET h == Head(t) IN
         IF h = "w" /\ ~inString
         THEN Canon(Tail(t), inString)
         ELSE <<h>> \o Canon(Tail(t), IF h = "q" THEN ~inString ELSE inString)

\* line 126: the control characters are dropped
Cleaned(t) == SelectSeq(t, LAMBDA ch : ch # "c")

\* re.search(r'```json\s*(\{[\s\S]*?\})\s*```'): the ends a match that opens at
\* the fence at i can have, its group starting at b
FenceBody(t, i) == SkipWs(t, i + 1)
FenceEnds(t, i) ==
    LET b == FenceBody(t, i) IN
    IF b > Len(t) \/ t[b] # "{" THEN {}
    ELSE {e \in (b + 1)..Len(t) :
            /\ t[e] = "}"
            /\ LET a == SkipWs(t, e + 1) IN a <= Len(t) /\ t[a] \in {"F", "J"}}

\* the fences at which the pattern matches
FenceStarts(t) == {i \in DOMAIN t : t[i] = "J" /\ FenceEnds(t, i) # {}}

MinOf(S) == CHOOSE m \in S : \A x \in S : m <= x
MaxOf(S) == CHOOSE m \in S : \A x \in S : x <= m

\* lines 114-116: the leftmost match, its group ending at the first brace that a
\* closing fence follows
FencedGroup(t) ==
    LET i == MinOf(FenceStarts(t)) IN SubSeq(t, FenceBody(t, i), MinOf(FenceEnds(t, i)))

\* lines 118-119: text.find('{') and text.rfind('}'); 0 stands for -1
FindOpen(t) == LET S == {i \in DOMAIN t : t[i] = "{"} IN IF S = {} THEN 0 ELSE MinOf(S)
RFindClose(t) == LET S == {i \in DOMAIN t : t[i] = "}"} IN IF S = {} THEN 0 ELSE MaxOf(S)

\* mutant: json.JSONDecodeError is not caught
DecodeRaises(json_str) == Raises
\* lines 128-130
DecodeFailed(json_str) == NoObject

\* lines 124-130
LoadsOrNone(json_str) ==
    LET cleaned == Cleaned(json_str) IN
    IF Parses(cleaned) THEN SomeObject(Canon(cleaned, FALSE)) ELSE DecodeFailed(json_str)

\* lines 110-130
ExtractJson(text) ==
    IF text = <<>> THEN NoObject
    ELSE IF FenceStarts(text) # {} THEN LoadsOrNone(FencedGroup(text))
    ELSE LET start_index == FindOpen(text)
             end_index == RFindClose(text)
         IN  IF start_index # 0 /\ end_index # 0 /\ end_index > start_index
             THEN LoadsOrNone(SubSeq(text, start_index, end_index))
             ELSE NoObject

(***************************************************************************)
(* run_seo_pipeline_stream: the locals of one run.                         *)
(***************************************************************************)
NoAudit == [bound |-> FALSE, of |-> None, kind |-> "num", val |-> 0]

\* the keys of the product_info the caller built (api_automatizada.py 223, 234,
\* 476, 478); bula_text is there when the script says so
CallerInfo(script) == {"keywords"} \cup (IF script.bula THEN {"bula_text"} ELSE {})

\* info  : the keys of product_info
\* calls : what each generator and refiner call of the run was given
InitRunWith(script, previous_content, feedback_text) ==
    [script |-> script, pc |-> "start", attempt |-> 0,
     best |-> None, highest |-> NoScore,
     cur |-> None, audit |-> NoAudit,
     chunk |-> NoChunk, resume |-> "",
     audits |-> <<>>, exc |-> "",
     nSens |-> 0, nGen |-> 0, nAud |-> 0, nRef |-> 0,
     refPrev |-> None, refFb |-> NoAudit, refAnalysis |-> NoAudit,
     previous_content |-> previous_content, feedback_text |-> feedback_text,
     info |-> CallerInfo(script), calls |-> <<>>]

\* lines 238-239: both parameters default to None
InitRun(script) == InitRunWith(script, None, None)

\* mutant: the new keys replace the old ones
InfoReset(product_info, keys) == keys
\* lines 251, 259, 206-209: keys are set on the caller's dict
InfoUpdate(product_info, keys) == product_info \cup keys

\* line 271: generator_agent(product_name, product_info)
GeneratorArgs(p, product_info) ==
    [agent |-> "generator", product_info |-> product_info,
     previous_json |-> None, feedback_data |-> NoAudit]

\* line 273: refiner_agent(product_name, product_info, best_attempt_content,
\* audit_results)
RefinerArgs(p, product_info) ==
    [agent |-> "refiner", product_info |-> product_info,
     previous_json |-> p.best, feedback_data |-> p.audit]

\* yield await _send_event(...): the generator hands `chunk` over and continues
\* at `resume` once the consumer asks for the next chunk
Emit(p, chunk, resume) == [p EXCEPT !.pc = "emit", !.chunk = chunk, !.resume = resume]

\* mutant: the handler ends the run without its error event
RaiseSilent(p, e) == [p EXCEPT !.exc = e, !.pc = "end"]

\* except Exception (lines 305-307): one error event, then the generator ends
Raise(p, e) == Emit([p EXCEPT !.exc = e], ErrorChunk, "end")

\* line 268: the head of one iteration of the for loop
LoopHead(p, attempt) ==
    Emit([p EXCEPT !.attempt = attempt], LogChunk("cycle", "info"), "agent")

\* lines 289-293: after the loop
AfterLoop(p) ==
    IF p.best = None
    THEN Emit(p, LogChunk("failed", "error"), "end")
    ELSE [p EXCEPT !.pc = "finalize"]

\* the for statement taking its next value, or running out
NextAttempt(p) ==
    IF p.attempt < MAX_ATTEMPTS THEN LoopHead(p, p.attempt + 1) ELSE AfterLoop(p)

\* lines 249-265, up to the first await
StartRun(p) ==
    LET q == [p EXCEPT !.info = InfoUpdate(@, {"nome_base"})] IN
    CASE p.script.ptype = "medicine" ->
            IF ~p.script.bula
            THEN Raise(q, "ValueError_bula")
            ELSE Emit(q, LogChunk("analysing", "info"), "sensitive")
      [] p.script.ptype = "beauty" ->
            LoopHead([q EXCEPT !.best = None, !.highest = NoScore], 1)
      [] OTHER -> Raise(q, "ValueError_type")

\* lines 258-265: the sensitive-term pass never raises (it returns [] instead)
SensitiveRun(p) ==
    LoopHead([p EXCEPT !.nSens = @ + 1, !.best = None, !.highest = NoScore,
                       !.info = InfoUpdate(@, {"dynamic_blacklist"})], 1)

\* lines 191, 225: what the refiner renders as analise_automatica_anterior. The
\* medicine refiner dumps feedback_data itself; the beauty refiner dumps
\* feedback_data.get("analise_automatica_anterior"), a key an audit result
\* ({total_score, feedback_geral, ...}) does not hold, which is None
PriorAnalysis(ptype, feedback_data) ==
    IF ptype = "medicine" THEN feedback_data ELSE NoAudit

\* lines 206-209: the beauty generator sets the two research keys before it
\* renders its prompt; the other agents read product_info only
GeneratorInfo(ptype, product_info) ==
    IF ptype = "beauty"
    THEN InfoUpdate(product_info, {"faq_research_context", "keyword_research_context"})
    ELSE product_info

\* lines 270-277
AgentRun(p) ==
    IF p.attempt = 1
    THEN LET q == [p EXCEPT !.nGen = @ + 1,
                            !.info = GeneratorInfo(p.script.ptype, @),
                            !.calls = Append(@, GeneratorArgs(p, p.info))] IN
         CASE p.script.gen = "raise" -> Raise(q, "generator")
           [] p.script.gen = None ->
                Emit([q EXCEPT !.cur = None], LogChunk("attempt_failed", "warning"), "next")
           [] OTHER -> [q EXCEPT !.cur = p.script.gen, !.pc = "audit"]
    ELSE IF ~p.audit.bound
         THEN Raise(p, "UnboundLocalError")   \* audit_results is read unassigned
         ELSE LET q == [p EXCEPT !.nRef = @ + 1, !.refPrev = p.best, !.refFb = p.audit,
                                 !.refAnalysis = PriorAnalysis(p.script.ptype, p.audit),
                                 !.calls = Append(@, RefinerArgs(p, p.info))]
                  result == IF p.script.ref = None THEN p.best ELSE p.script.ref
              IN  CASE p.script.ref = "raise" -> Raise(q, "refiner")
                    [] result = None ->
                         Emit([q EXCEPT !.cur = None],
                              LogChunk("attempt_failed", "warning"), "next")
                    [] OTHER -> [q EXCEPT !.cur = result, !.pc = "audit"]

\* lines 279-281
AuditRun(p) ==
    LET answer == IF p.attempt = 1 THEN p.script.a1 ELSE p.script.a2
        q == [p EXCEPT !.nAud = @ + 1]
    IN  IF answer.kind = "raise"
        THEN Raise(q, "auditor")
        ELSE LET a == [bound |-> TRUE, of |-> p.cur, kind |-> answer.kind,
                       val |-> answer.val]
             IN  Emit([q EXCEPT !.audit = a, !.audits = Append(@, a)],
                      ScoreChunk(a), "compare")

\* mutant: an equal score replaces the best attempt
BetterOrEqual(score, highest) == score >= highest
\* line 283: the best attempt is replaced on a strictly greater score
Better(score, highest) == score > highest

\* mutant: the target itself is not accepted
AcceptedAbove(score) == score > MIN_SCORE_TARGET
\* line 286
Accepted(score) == score >= MIN_SCORE_TARGET

\* lines 283-287, then the loop's next iteration or lines 289-293
CompareRun(p) ==
    IF p.audit.kind # "num"
    THEN Raise(p, "TypeError")   \* final_score > highest_score on a non-number
    ELSE LET q == IF Better(p.audit.val, p.highest)
                  THEN [p EXCEPT !.highest = p.audit.val, !.best = p.cur]
                  ELSE p
         IN  IF Accepted(p.audit.val) THEN AfterLoop(q) ELSE NextAttempt(q)

\* mutant: the last attempt's score and content are reported
FinalizeRunLast(p) == Emit(p, DoneChunk(p.audit.val, p.cur), "end")

\* lines 293-303
FinalizeRun(p) == Emit(p, DoneChunk(p.highest, p.best), "end")

P_Start(r) == pl[r].pc = "start" /\ pl' = [pl EXCEPT ![r] = StartRun(@)]
P_Sensitive(r) == pl[r].pc = "sensitive" /\ pl' = [pl EXCEPT ![r] = SensitiveRun(@)]
P_Agent(r) == pl[r].pc = "agent" /\ pl' = [pl EXCEPT ![r] = AgentRun(@)]
P_Next(r) == pl[r].pc = "next" /\ pl' = [pl EXCEPT ![r] = NextAttempt(@)]
P_Audit(r) == pl[r].pc = "audit" /\ pl' = [pl EXCEPT ![r] = AuditRun(@)]
P_Compare(r) == pl[r].pc = "compare" /\ pl' = [pl EXCEPT ![r] = CompareRun(@)]
P_Finalize(r) == pl[r].pc = "finalize" /\ pl' = [pl EXCEPT ![r] = FinalizeRun(@)]

\* the generator resumed after a yield
Resumed(p) == [p EXCEPT !.pc = p.resume, !.chunk = NoChunk, !.resume = ""]

(***************************************************************************)
(* Spec: one run, its consumer iterating `async for chunk in ...`.         *)
(***************************************************************************)
Consume(r) ==
    /\ pl[r].pc = "emit"
    /\ stream' = Append(stream, pl[r].chunk)
    /\ pl' = [pl EXCEPT ![r] = Resumed(@)]

IdleBatch ==
    /\ wk = <<>>
    /\ sem = 0
    /\ queue = <<>>
    /\ counter = 0
    /\ summary = [success |-> 0, skipped |-> 0, errors |-> 0]
    /\ resultados = <<>>
    /\ es = [pc |-> "idle"]
    /\ yielded = EmptyBag

Init ==
    /\ \E script \in Scripts : pl = <<InitRun(script)>>
    /\ stream = <<>>
    /\ IdleBatch
    /\ IdleBackoff
    /\ IdleLib

S_Start == \E r \in DOMAIN pl : P_Start(r) /\ UNCHANGED <<stream, batchVars, bk, libVars>>
S_Sensitive == \E r \in DOMAIN pl : P_Sensitive(r) /\ UNCHANGED <<stream, batchVars, bk, libVars>>
S_Agent == \E r \in DOMAIN pl : P_Agent(r) /\ UNCHANGED <<stream, batchVars, bk, libVars>>
S_Next == \E r \in DOMAIN pl : P_Next(r) /\ UNCHANGED <<stream, batchVars, bk, libVars>>
S_Audit == \E r \in DOMAIN pl : P_Audit(r) /\ UNCHANGED <<stream, batchVars, bk, libVars>>
S_Compare == \E r \in DOMAIN pl : P_Compare(r) /\ UNCHANGED <<stream, batchVars, bk, libVars>>
S_Finalize == \E r \in DOMAIN pl : P_Finalize(r) /\ UNCHANGED <<stream, batchVars, bk, libVars>>
S_Consume == \E r \in DOMAIN pl : Consume(r) /\ UNCHANGED <<batchVars, bk, libVars>>

Next ==
    \/ S_Start
    \/ S_Sensitive
    \/ S_Agent
    \/ S_Next
    \/ S_Audit
    \/ S_Compare
    \/ S_Finalize
    \/ S_Consume

Spec == Init /\ [][Next]_vars

(***************************************************************************)
(* batch_process_stream: the rows of a batch.                              *)
(*   sku    : the row's _EANSKU                                            *)
(*   cat    : medicine batch: what the catalog holds for the row's SKU     *)
(*   parse  : the done chunk of the row's run splits on 'data: ' into the  *)
(*            JSON payload (FALSE: the payload itself holds 'data: ' and   *)
(*            json.loads raises)                                           *)
(*   script : the answers of the collaborators of the row's run            *)
(***************************************************************************)
Preconditions == {"ok", "no_catalog", "not_valid", "no_link", "no_text"}

\* the catalog's answer for one SKU: a row of that barcode exists, its
\* LINK_VALIDACAO is 'sim', its bula link is not blank, and the download of the
\* link yields a PDF with text
CatalogRow(found, valid, link, text) ==
    [found |-> found, valid |-> valid, link |-> link, text |-> text]

CatalogOk == CatalogRow(TRUE, TRUE, TRUE, TRUE)

\* mutant: the link is looked at before the validity mark
FirstUnmetLinkFirst(cat) ==
    CASE ~cat.found -> "no_catalog"
      [] ~cat.link -> "no_link"
      [] ~cat.valid -> "not_valid"
      [] ~cat.text -> "no_text"
      [] OTHER -> "ok"

\* lines 210-220: the checks of a medicine row in the order the worker makes
\* them; the first unmet one raises ValueError
FirstUnmet(cat) ==
    CASE ~cat.found -> "no_catalog"
      [] ~cat.valid -> "not_valid"
      [] ~cat.link -> "no_link"
      [] ~cat.text -> "no_text"
      [] OTHER -> "ok"

BatchScript(gen, a1val) ==
    [ptype |-> "", bula |-> TRUE, gen |-> gen, ref |-> None,
     a1 |-> [kind |-> "num", val |-> a1val], a2 |-> [kind |-> "num", val |-> a1val]]

RowCase(cat, parse, script) == [cat |-> cat, parse |-> parse, script |-> script]

\* the rows a sheet is made of: a run that ends with done, a done chunk that
\* does not parse, a run that ends with an error event, a run that ends with
\* the failure report, and rows that fail one or several catalog checks
RowDone == RowCase(CatalogOk, TRUE, BatchScript("A", 95))
RowUnparsed == RowCase(CatalogOk, FALSE, BatchScript("A", 95))
RowError == RowCase(CatalogOk, TRUE, BatchScript("raise", 0))
RowFailed == RowCase(CatalogOk, TRUE, BatchScript("A", -1))
RowNoCatalog == RowCase(CatalogRow(FALSE, FALSE, FALSE, FALSE), TRUE, BatchScript("A", 95))
RowNotValid == RowCase(CatalogRow(TRUE, FALSE, FALSE, FALSE), TRUE, BatchScript("A", 95))
RowNoLink == RowCase(CatalogRow(TRUE, TRUE, FALSE, FALSE), TRUE, BatchScript("A", 95))
RowNoText == RowCase(CatalogRow(TRUE, TRUE, TRUE, FALSE), TRUE, BatchScript("A", 95))

\* the rows of the items spreadsheet
Rows == {1, 2, 3}
NumRows == Cardinality(Rows)

\* skus: the _EANSKU of each row of the sheet
BatchOfSkus(medicine, read, sheet, skus) ==
    [medicine |-> medicine, read |-> read, sheet |-> sheet, skus |-> skus]

Batch(medicine, read, sheet) == BatchOfSkus(medicine, read, sheet, [r \in Rows |-> r])

\* the batches submitted: with a catalog (medicine) or without (beauty), the
\* spreadsheets readable or not, the SKUs distinct or one SKU on two rows
Batches ==
    {Batch(TRUE, "ok", <<RowDone, RowNoCatalog, RowFailed>>),
     Batch(TRUE, "ok", <<RowNotValid, RowNoLink, RowNoText>>),
     Batch(FALSE, "ok", <<RowDone, RowUnparsed, RowError>>),
     BatchOfSkus(FALSE, "ok", <<RowDone, RowDone, RowError>>, <<1, 2, 2>>),
     Batch(TRUE, "catalog_fail", <<RowDone, RowDone, RowDone>>),
     Batch(FALSE, "items_fail", <<RowDone, RowDone, RowDone>>)}

\* the row as the worker reads it
RowOf(case, sku, medicine) ==
    [sku |-> sku, cat |-> case.cat, parse |-> case.parse,
     script |-> [case.script EXCEPT !.ptype = IF medicine THEN "medicine" ELSE "beauty"]]

Sentinel == Chunk("sentinel", "", "", 0, None, 0)
ProgressChunk(current, sku) == Chunk("progress", "", "", current, None, sku)
SkipChunk(sku, reason) == Chunk("log", "warning", reason, 0, None, sku)
BatchLog(tag, level) == Chunk("log", level, tag, 0, None, 0)

\* async with semaphore (line 191): a permit is free
CanAcquireAlways(free) == TRUE
CanAcquire(free) == free > 0

\* mutant: the second row to start reads the counter without adding to it
NextCountLost(count) == IF count = 1 THEN count ELSE count + 1
\* line 206: counter[0] += 1
NextCount(count) == count + 1

\* line 246
SkipRowAsError(sm) == [sm EXCEPT !.errors = @ + 1]
SkipRow(sm) == [sm EXCEPT !.skipped = @ + 1]

\* line 242
CountSuccess(sm) == [sm EXCEPT !.success = @ + 1]

\* the queue is unbounded; the model lets a worker put while fewer than
\* MaxQueue chunks wait
CanPut == Len(queue) < MaxQueue

\* the awaits at which a run waits for an agent
InCall(pc) == pc \in {"sensitive", "agent", "audit", "finalize"}

\* mutant: the auditor is called on the thread of the event loop
OffloadedButAudit(pc) == pc \in {"sensitive", "agent", "finalize"}
\* use_cases.py lines 258, 271, 273, 279 and 293: every agent is called through
\* asyncio.to_thread, the sleeps of its retries included
Offloaded(pc) == pc \in {"sensitive", "agent", "audit", "finalize"}

\* the task of row r is inside a call that occupies the thread of the event
\* loop: requests.get and the file writes of get_bula_text_from_link (lines
\* 123-137) are plain blocking calls with no await between them
Blocking(r) ==
    \/ wk[r].pc = "download"
    \/ wk[r].pc = "pipeline" /\ InCall(pl[r].pc) /\ ~Offloaded(pl[r].pc)

\* the event loop can resume the task of row r (0: the coordinator): no other
\* task is inside a blocking call
LoopFree(r) == \A o \in Rows \ {r} : ~Blocking(o)

\* async with DOWNLOAD_SEMAPHORE (line 120)
Downloading == {r \in Rows : wk[r].pc = "download"}
CanDownload == Cardinality(Downloading) < DownloadPermits

\* lines 191-207, up to the sleep of _send_event("progress", ...)
W_Acquire(r) ==
    /\ es.pc = "loop"
    /\ wk[r].pc = "waiting"
    /\ LoopFree(r)
    /\ CanAcquire(sem)
    /\ sem' = sem - 1
    /\ counter' = NextCount(counter)
    /\ wk' = [wk EXCEPT ![r].pc = "progress", ![r].current = counter']
    /\ UNCHANGED <<pl, stream, queue, summary, resultados, es, yielded, bk, libVars>>

\* line 236: the row's run is created
StartPipeline(r) ==
    /\ wk' = [wk EXCEPT ![r].pc = "pipeline"]
    /\ pl' = [pl EXCEPT ![r] = InitRun(wk[r].row.script)]
    /\ summary' = summary

\* lines 245-248 up to the sleep of the log's _send_event
SkipWith(r, reason) ==
    /\ summary' = SkipRow(summary)
    /\ wk' = [wk EXCEPT ![r].pc = "skip_log", ![r].reason = reason]
    /\ pl' = pl

\* lines 207-236: the progress event is put; a medicine row is looked up in the
\* catalog, the first unmet check raising ValueError, and its bula download
\* begins; a beauty row's run is started
W_Progress(r) ==
    /\ wk[r].pc = "progress"
    /\ LoopFree(r)
    /\ CanPut
    /\ queue' = Append(queue, ProgressChunk(wk[r].current, wk[r].row.sku))
    /\ IF es.medicine
       THEN LET unmet == FirstUnmet([wk[r].row.cat EXCEPT !.text = TRUE]) IN
            IF unmet # "ok"
            THEN SkipWith(r, unmet)
            ELSE /\ CanDownload
                 /\ wk' = [wk EXCEPT ![r].pc = "download"]
                 /\ UNCHANGED <<pl, summary>>
       ELSE StartPipeline(r)
    /\ UNCHANGED <<stream, sem, counter, resultados, es, yielded, bk, libVars>>

\* lines 220-236: get_bula_text_from_link returns, with the text of the PDF or
\* with "" after any failure
W_Download(r) ==
    /\ wk[r].pc = "download"
    /\ LET unmet == FirstUnmet(wk[r].row.cat) IN
       IF unmet # "ok" THEN SkipWith(r, unmet) ELSE StartPipeline(r)
    /\ UNCHANGED <<stream, sem, queue, counter, resultados, es, yielded, bk, libVars>>

\* lines 249-250 and the release of the semaphore: the sentinel is the worker's
\* last put
\* mutant: the worker ends without its sentinel
LeaveSilently(r, q) ==
    /\ queue' = q
    /\ sem' = sem + 1
    /\ wk' = [wk EXCEPT ![r].pc = "finished"]
Leave(r, q) ==
    /\ queue' = Append(q, Sentinel)
    /\ sem' = sem + 1
    /\ wk' = [wk EXCEPT ![r].pc = "finished"]

\* lines 236-244: one chunk of the row's run
W_Chunk(r) ==
    /\ wk[r].pc = "pipeline"
    /\ LoopFree(r)
    /\ pl[r].pc = "emit"
    /\ IF pl[r].chunk.kind = "done"
       THEN IF wk[r].row.parse
            THEN /\ resultados' = Append(resultados, [pl[r].chunk EXCEPT !.sku = wk[r].row.sku])
                 /\ wk' = [wk EXCEPT ![r].pc = "done"]
                 /\ UNCHANGED <<pl, queue, sem, summary>>
            ELSE /\ summary' = SkipRow(summary)
                 /\ wk' = [wk EXCEPT ![r].pc = "skip_log", ![r].reason = "json"]
                 /\ pl' = [pl EXCEPT ![r].pc = "closed"]
                 /\ UNCHANGED <<queue, sem, resultados>>
       ELSE /\ CanPut
            /\ pl' = [pl EXCEPT ![r] = Resumed(@)]
            /\ IF pl[r].resume = "end"
               THEN Leave(r, Append(queue, pl[r].chunk))
               ELSE /\ queue' = Append(queue, pl[r].chunk)
                    /\ UNCHANGED <<wk, sem>>
            /\ UNCHANGED <<summary, resultados>>
    /\ UNCHANGED <<stream, counter, es, yielded, bk, libVars>>

\* lines 241-242, then the run is exhausted and the worker leaves
W_Done(r) ==
    /\ wk[r].pc = "done"
    /\ LoopFree(r)
    /\ CanPut
    /\ summary' = CountSuccess(summary)
    /\ pl' = [pl EXCEPT ![r] = Resumed(@)]
    /\ Leave(r, Append(queue, [pl[r].chunk EXCEPT !.sku = wk[r].row.sku]))
    /\ UNCHANGED <<stream, counter, resultados, es, yielded, bk, libVars>>

\* line 248, then the worker leaves
W_SkipLog(r) ==
    /\ wk[r].pc = "skip_log"
    /\ LoopFree(r)
    /\ CanPut
    /\ Leave(r, Append(queue, SkipChunk(wk[r].row.sku, wk[r].reason)))
    /\ UNCHANGED <<pl, stream, counter, summary, resultados, es, yielded, bk, libVars>>

\* the steps of the row's run between two awaits: the worker iterates the run
\* and the event loop can resume it
InRun(r) == wk[r].pc = "pipeline" /\ LoopFree(r)
runFrame == <<stream, wk, sem, queue, counter, summary, resultados, es, yielded, bk, libVars>>

B_Acquire == \E r \in Rows : W_Acquire(r)
B_Progress == \E r \in Rows : W_Progress(r)
B_Download == \E r \in Rows : W_Download(r)
B_Chunk == \E r \in Rows : W_Chunk(r)
B_Done == \E r \in Rows : W_Done(r)
B_SkipLog == \E r \in Rows : W_SkipLog(r)
B_Start == \E r \in Rows : InRun(r) /\ P_Start(r) /\ UNCHANGED runFrame
B_Sensitive == \E r \in Rows : InRun(r) /\ P_Sensitive(r) /\ UNCHANGED runFrame
B_Agent == \E r \in Rows : InRun(r) /\ P_Agent(r) /\ UNCHANGED runFrame
B_Next == \E r \in Rows : InRun(r) /\ P_Next(r) /\ UNCHANGED runFrame
B_Audit == \E r \in Rows : InRun(r) /\ P_Audit(r) /\ UNCHANGED runFrame
B_Compare == \E r \in Rows : InRun(r) /\ P_Compare(r) /\ UNCHANGED runFrame
B_Finalize == \E r \in Rows : InRun(r) /\ P_Finalize(r) /\ UNCHANGED runFrame

(***************************************************************************)
(* event_stream of batch_process_stream.                                   *)
(***************************************************************************)
Yield(chunk) ==
    /\ yielded' = yielded (+) SetToBag({chunk})
    /\ es' = [es EXCEPT !.last = chunk.tag]

\* mutant: a catalog that cannot be read is passed over
UnreadableItems(medicine, read) == read = "items_fail"
\* lines 252-264: read_spreadsheet raises for the items sheet, or for the
\* catalog of a medicine batch (or the catalog lacks its barcode column)
Unreadable(medicine, read) == read = "items_fail" \/ (medicine /\ read = "catalog_fail")

\* lines 251-268: the spreadsheets are read; an unreadable one is fatal (312-314)
E_Read ==
    /\ es.pc = "start"
    /\ LoopFree(0)
    /\ IF Unreadable(es.medicine, es.read)
       THEN /\ yielded' = yielded (+) SetToBag(
                   (IF es.read = "catalog_fail" THEN {BatchLog("mode", "info")} ELSE {})
                   \cup {BatchLog("fatal", "error")})
            /\ es' = [es EXCEPT !.pc = "closed", !.last = "fatal"]
       ELSE /\ yielded' = yielded (+) SetToBag({BatchLog("mode", "info"), BatchLog("sheet_read", "info")})
            /\ es' = [es EXCEPT !.pc = "spawn", !.last = "sheet_read"]
    /\ UNCHANGED <<pl, stream, wk, sem, queue, counter, summary, resultados, bk, libVars>>

\* lines 270-279: the queue, the semaphore and one task per row
E_Spawn ==
    /\ es.pc = "spawn"
    /\ LoopFree(0)
    /\ es' = [es EXCEPT !.pc = "loop"]
    /\ sem' = MAX_CONCURRENT_REQUESTS
    /\ wk' = [r \in Rows |-> [wk[r] EXCEPT !.pc = "waiting"]]
    /\ UNCHANGED <<pl, stream, queue, counter, summary, resultados, yielded, bk, libVars>>

\* line 280: every worker has signalled
AllButOneSignalled(n, total) == n >= total - 1
AllSignalled(n, total) == n >= total

\* lines 280-285: one item of the queue
E_Get ==
    /\ es.pc = "loop"
    /\ LoopFree(0)
    /\ ~AllSignalled(es.finished_workers, NumRows)
    /\ queue # <<>>
    /\ queue' = Tail(queue)
    /\ IF Head(queue) = Sentinel
       THEN /\ es' = [es EXCEPT !.finished_workers = @ + 1]
            /\ yielded' = yielded
       ELSE Yield(Head(queue))
    /\ UNCHANGED <<pl, stream, wk, sem, counter, summary, resultados, bk, libVars>>

\* lines 287-290: gather, then the summary log
E_Summary ==
    /\ es.pc = "loop"
    /\ LoopFree(0)
    /\ AllSignalled(es.finished_workers, NumRows)
    /\ \A r \in Rows : wk[r].pc = "finished"
    /\ yielded' = yielded (+) SetToBag({BatchLog("summary", "info")})
    /\ es' = [es EXCEPT !.pc = "summarised", !.last = "summary",
                        !.reported = [success |-> summary.success, skipped |-> summary.skipped]]
    /\ UNCHANGED <<pl, stream, wk, sem, queue, counter, summary, resultados, bk, libVars>>

\* the title, meta-description and description of every row of the sheet as
\* read_spreadsheet returns it again (line 298)
OriginalSheet == [r \in Rows |-> "original"]

\* lines 301-305: the three fields of a result are written to every row of the
\* sheet whose _EANSKU equals the result's
WriteResult(sheet, res) ==
    [r \in Rows |-> IF wk[r].row.sku = res.sku THEN res.content ELSE sheet[r]]

\* lines 300-305: for res in resultados_finais
RECURSIVE WriteResults(_, _)
WriteResults(sheet, results) ==
    IF results = <<>>
    THEN sheet
    ELSE WriteResults(WriteResult(sheet, Head(results)), Tail(results))

\* mutant: the draft is built whatever the results
NeverEmpty(results) == FALSE
\* line 292: if not resultados_finais
NoResults(results) == results = <<>>

\* lines 292-310: the warning, or the draft and the finished event
E_Finish ==
    /\ es.pc = "summarised"
    /\ LoopFree(0)
    /\ IF NoResults(resultados)
       THEN /\ yielded' = yielded (+) SetToBag({BatchLog("none_succeeded", "warning")})
            /\ es' = [es EXCEPT !.pc = "closed", !.last = "none_succeeded"]
       ELSE /\ yielded' = yielded (+) SetToBag({BatchLog("building", "info"),
                                                Chunk("finished", "", "", 0, None, 0)})
            /\ es' = [es EXCEPT !.pc = "closed", !.last = "finished",
                                !.draft = WriteResults(OriginalSheet, resultados)]
    /\ UNCHANGED <<pl, stream, wk, sem, queue, counter, summary, resultados, bk, libVars>>

InitBatch ==
    /\ \E b \in Batches :
         /\ es = [pc |-> "start", medicine |-> b.medicine, read |-> b.read,
                  finished_workers |-> 0, last |-> "",
                  reported |-> [success |-> 0, skipped |-> 0],
                  draft |-> OriginalSheet]
         /\ wk = [r \in Rows |-> [pc |-> "unborn", row |-> RowOf(b.sheet[r], b.skus[r], b.medicine),
                                   current |-> 0, reason |-> ""]]
    /\ pl = [r \in Rows |-> InitRun(BatchScript("A", 95))]
    /\ stream = <<>>
    /\ sem = 0
    /\ queue = <<>>
    /\ counter = 0
    /\ summary = [success |-> 0, skipped |-> 0, errors |-> 0]
    /\ resultados = <<>>
    /\ yielded = EmptyBag
    /\ IdleBackoff
    /\ IdleLib

NextBatch ==
    \/ E_Read \/ E_Spawn \/ E_Get \/ E_Summary \/ E_Finish
    \/ B_Acquire \/ B_Progress \/ B_Download \/ B_Chunk \/ B_Done \/ B_SkipLog
    \/ B_Start \/ B_Sensitive \/ B_Agent \/ B_Next \/ B_Audit \/ B_Compare \/ B_Finalize

SpecBatch == InitBatch /\ [][NextBatch]_vars

\* the event loop runs a task that is ready, the threads of the agents run, and
\* every agent call returns
SpecBatchFair == SpecBatch /\ WF_vars(NextBatch)

(***************************************************************************)
(* One call of _execute_prompt_with_backoff, the model answering each      *)
(* generate_content call with any of the outcomes.                         *)
(***************************************************************************)
K_Call ==
    /\ bk.pc = "loop"
    /\ HasBudget(bk.attempt, bk.max_retries)
    /\ \E outcome \in Outcomes : bk' = CallModel(bk, outcome)
    /\ UNCHANGED <<plVars, batchVars, libVars>>

K_Sleep ==
    /\ bk.pc = "sleep"
    /\ bk' = SleepDone(bk)
    /\ UNCHANGED <<plVars, batchVars, libVars>>

K_GiveUp ==
    /\ bk.pc = "loop"
    /\ ~HasBudget(bk.attempt, bk.max_retries)
    /\ bk' = GiveUp(bk)
    /\ UNCHANGED <<plVars, batchVars, libVars>>

InitCall ==
    /\ \E max_retries \in 0..MaxRetries : bk = InitBackoff(max_retries)
    /\ pl = <<>>
    /\ stream = <<>>
    /\ IdleBatch
    /\ IdleLib

NextCall == K_Call \/ K_Sleep \/ K_GiveUp

SpecBackoff == InitCall /\ [][NextCall]_vars

(***************************************************************************)
(* The extractor applied to a model response. A response is a JSON text,   *)
(* or some other text, that the model may wrap in a fenced block and       *)
(* surround with narrative; the four renderings of one response are        *)
(* extracted independently.                                                *)
(***************************************************************************)
Pending == [kind |-> "pending", obj |-> <<>>]

JsonObjects ==
    { <<"{", "}">>,
      <<"{", "q", "x", "q", ":", "v", "}">>,
      <<"{", "w", "q", "x", "q", "w", ":", "w", "v", "w", "}">>,
      <<"{", "q", "x", "q", ":", "{", "}", "}">>,
      <<"{", "q", "x", "q", ":", "q", "}", "q", "}">>,
      <<"{", "q", "x", "q", ":", "q", "}", "F", "q", "}">>,
      <<"{", "q", "x", "q", ":", "q", "J", "{", "}", "F", "q", "}">> }

OtherTexts ==
    { <<>>,
      <<"x", "w", "x">>,
      <<"}", "x", "{">>,
      <<"{", "x">>,
      <<"{", "x", "}">>,
      <<"{", "q", "x", "q", ":", "}">>,
      <<"{", "q", "x", "q", ":", "v", "}", "}">>,
      <<"{", "q", "x", "q", ":", "c", "v", "}">> }

Prefixes == { <<>>, <<"x", "w">>, <<"x", "{", "x", "}", "w">> }
Suffixes == { <<>>, <<"w", "x">>, <<"w", "{", "}">> }

Variants == {"bare", "fenced", "bare_narrated", "fenced_narrated"}

Fenced(t) == <<"J", "w">> \o t \o <<"w", "F">>

TextOf(e, variant) ==
    CASE variant = "bare" -> e.json
      [] variant = "fenced" -> Fenced(e.json)
      [] variant = "bare_narrated" -> e.pre \o e.json \o e.suf
      [] variant = "fenced_narrated" -> e.pre \o Fenced(e.json) \o e.suf

X_Extract(variant) ==
    /\ ex.pc = "run"
    /\ ex.results[variant] = Pending
    /\ ex' = [ex EXCEPT !.results[variant] = ExtractJson(TextOf(ex, variant))]
    /\ UNCHANGED <<plVars, batchVars, bk, ag, ledger, rank, memory, saves, extVars>>

InitExtract ==
    /\ \E json \in JsonObjects \cup OtherTexts, pre \in Prefixes, suf \in Suffixes :
          ex = [pc |-> "run", json |-> json, pre |-> pre, suf |-> suf,
                results |-> [v \in Variants |-> Pending]]
    /\ pl = <<>>
    /\ stream = <<>>
    /\ IdleExt
    /\ IdleBatch
    /\ IdleBackoff
    /\ IdleAgent
    /\ IdleLedger
    /\ IdleMemory

NextExtract == \E variant \in Variants : X_Extract(variant)

SpecExtract == InitExtract /\ [][NextExtract]_vars

(***************************************************************************)
(* One call of a generator, auditor or refiner agent of either domain      *)
(* (use_cases.py 176-229): the optional search step, the rendering of the  *)
(* prompt, the model call through _execute_prompt_with_backoff, the        *)
(* extraction of the response and the agent's return value.                *)
(***************************************************************************)
DefaultRetries == 5

Agents == {"generator", "auditor", "refiner"}
Domains == {"medicine", "beauty"}

\* the content handed to a refiner as previous_json; the orchestrator can hand
\* it None
SomeContent == SomeObject(<<"{", "q", "x", "q", ":", "v", "}">>)
Previous == {NoObject, SomeContent}

\* the texts a model call can return (never the empty text, lines 148-150)
Responses ==
    { <<"{", "q", "x", "q", ":", "{", "}", "}">>,
      <<"x", "w", "J", "w", "{", "q", "x", "q", ":", "q", "x", "q", "}", "w", "F">>,
      <<"{", "}">>,
      <<"x", "w", "x">>,
      <<"{", "x", "}">> }

\* lines 184, 217: the audit returned when nothing was extracted
FallbackAudit == [kind |-> "fallback", obj |-> <<>>, total_score |-> 0]

\* Python truth value of an extraction result: None and {} are false
Falsy(r) == r = NoObject \/ r = SomeObject(<<"{", "}">>)

\* mutant: the auditor returns what was extracted
AuditOnly(extracted) == extracted
\* lines 184, 217: _extract_json_from_string(response_raw) or {...}
AuditOrFallback(extracted) == IF Falsy(extracted) THEN FallbackAudit ELSE extracted

\* mutant: the refiner returns what was extracted
RefinedOnly(extracted, previous_json) == extracted
\* lines 195, 229: _extract_json_from_string(response_raw) or previous_json
RefinedOrPrevious(extracted, previous_json) ==
    IF Falsy(extracted) THEN previous_json ELSE extracted

\* _extract_json_from_string(response_raw), response_raw None included
ExtractResponse(b, text) == IF b.result.some THEN ExtractJson(text) ELSE NoObject

\* lines 179, 184, 195, 212, 217, 229: the return statement of the agent
AgentResult(a, b, text) ==
    LET extracted == ExtractResponse(b, text) IN
    CASE a.agent = "generator" -> extracted
      [] a.agent = "auditor" -> AuditOrFallback(extracted)
      [] a.agent = "refiner" -> RefinedOrPrevious(extracted, a.previous)

HasSearch(a) == a.agent = "generator" /\ a.domain = "beauty"

\* lines 199-205: the two searches; their exception is caught and logged
A_Search ==
    /\ ag.pc = "search"
    /\ \E outcome \in {"found", "raised"} :
          ag' = [ag EXCEPT !.pc = "render", !.search = outcome]
    /\ UNCHANGED <<plVars, batchVars, bk, ex, ledger, rank, memory, saves, extVars>>

\* lines 177, 182, 187-193, 210, 215, 220-227: prompt_manager.render, inside no
\* try block: its ValueError (prompt_manager.py 61-66) leaves the agent
A_Render ==
    /\ ag.pc = "render"
    /\ \E rendered \in BOOLEAN :
          IF rendered
          THEN /\ ag' = [ag EXCEPT !.pc = "call"]
               /\ bk' = InitBackoff(DefaultRetries)
          ELSE /\ ag' = [ag EXCEPT !.pc = "raised"]
               /\ UNCHANGED bk
    /\ UNCHANGED <<plVars, batchVars, ex, ledger, rank, memory, saves, extVars>>

\* the model call has returned: extraction and return value
A_Return ==
    /\ ag.pc = "call"
    /\ bk.pc = "returned"
    /\ \E text \in Responses :
          LET response == IF bk.result.some THEN text ELSE <<>> IN
          ag' = [ag EXCEPT !.pc = "returned", !.response = response,
                           !.result = AgentResult(ag, bk, response)]
    /\ UNCHANGED <<plVars, batchVars, bk, ex, ledger, rank, memory, saves, extVars>>

InitAgent ==
    /\ \E agent \in Agents, domain \in Domains, previous \in Previous :
          /\ agent # "refiner" => previous = NoObject
          /\ LET a == [agent |-> agent, domain |-> domain, previous |-> previous,
                       search |-> "none", response |-> <<>>, result |-> Pending,
                       pc |-> "render"]
             IN  ag = IF HasSearch(a) THEN [a EXCEPT !.pc = "search"] ELSE a
    /\ pl = <<>>
    /\ stream = <<>>
    /\ IdleExt
    /\ IdleBatch
    /\ IdleBackoff
    /\ IdleExtract
    /\ IdleLedger
    /\ IdleMemory

NextAgent == A_Search \/ A_Render \/ K_Call \/ K_Sleep \/ K_GiveUp \/ A_Return

SpecAgent == InitAgent /\ [][NextAgent]_vars

(***************************************************************************)
(* StrategyManager (strategy_manager.py): the ledger file and the calls    *)
(* log_strategy and get_strategies, made one after the other. `rank` holds *)
(* the call being made, then its outcome.                                  *)
(***************************************************************************)
MaxLedger == 4
DefaultTopN == 3

\* the total_score of analysis_before and of analysis_after
ScorePairs == {<<1, 0>>, <<1, 1>>, <<1, 2>>, <<2, 0>>}
TopNs == {DefaultTopN, MaxLedger}

\* lines 64-71; the timestamp is the ordinal of the write
StrategyRecord(product_type, score_before, score_after, now) ==
    [estrategia_aplicada |-> "geral", tipo_de_produto |-> product_type,
     texto_original_score |-> score_before, novo_texto_score |-> score_after,
     melhora_score |-> score_after - score_before, timestamp |-> now]

\* mutant: the file is written with the new record alone
Replaced(old, record) == <<record>>
\* lines 73-75: read, append, write back
Appended(old, record) == Append(old, record)

\* lines 51-76
LogStrategy(old, product_type, score_before, score_after) ==
    IF score_after - score_before = 0
    THEN old
    ELSE Appended(old, StrategyRecord(product_type, score_before, score_after, Len(old) + 1))

\* mutant: a record goes before the records of equal delta
InsertBeforeTies(record, sorted) ==
    LET k == Cardinality({i \in DOMAIN sorted : sorted[i].melhora_score > record.melhora_score})
    IN  SubSeq(sorted, 1, k) \o <<record>> \o SubSeq(sorted, k + 1, Len(sorted))
\* sorted(..., reverse=True) is stable: a record goes after the records of
\* greater or equal delta that precede it
InsertDescending(record, sorted) ==
    LET k == Cardinality({i \in DOMAIN sorted : sorted[i].melhora_score >= record.melhora_score})
    IN  SubSeq(sorted, 1, k) \o <<record>> \o SubSeq(sorted, k + 1, Len(sorted))

\* line 92
RECURSIVE SortedStrategies(_)
SortedStrategies(seq) ==
    IF seq = <<>> THEN <<>>
    ELSE InsertDescending(seq[Len(seq)], SortedStrategies(SubSeq(seq, 1, Len(seq) - 1)))

\* seq[:n]
Take(seq, n) == SubSeq(seq, 1, IF n < Len(seq) THEN n ELSE Len(seq))

\* lines 88-90
RelevantStrategies(all, product_type) ==
    LET relevant == SelectSeq(all, LAMBDA rec : rec.tipo_de_produto = product_type)
    IN  IF relevant = <<>> THEN all ELSE relevant

\* lines 94-95: the records listed in the first string; none stands for the
\* default message
Successful(all, product_type, top_n) ==
    SelectSeq(Take(SortedStrategies(RelevantStrategies(all, product_type)), top_n),
              LAMBDA rec : rec.melhora_score > 0)

\* lines 97-98: the records listed in the second string
Failed(all, product_type, top_n) ==
    Take(SelectSeq(SortedStrategies(RelevantStrategies(all, product_type)),
                   LAMBDA rec : rec.melhora_score <= 0), top_n)

\* a caller invokes log_strategy
L_CallLog ==
    /\ rank.pc \in {"idle", "logged", "ranked"}
    /\ Len(ledger) < MaxLedger
    /\ \E product_type \in Domains, scores \in ScorePairs :
          rank' = [pc |-> "log", product_type |-> product_type,
                   before |-> scores[1], after |-> scores[2]]
    /\ UNCHANGED <<plVars, batchVars, bk, ag, ex, ledger, memory, saves, extVars>>

\* a caller invokes get_strategies
L_CallRank ==
    /\ rank.pc \in {"idle", "logged", "ranked"}
    /\ \E product_type \in Domains, top_n \in TopNs :
          rank' = [pc |-> "rank", product_type |-> product_type, top_n |-> top_n]
    /\ UNCHANGED <<plVars, batchVars, bk, ag, ex, ledger, memory, saves, extVars>>

\* log_strategy, lines 51-76
L_Log ==
    /\ rank.pc = "log"
    /\ ledger' = LogStrategy(ledger, rank.product_type, rank.before, rank.after)
    /\ rank' = [rank EXCEPT !.pc = "logged"]
    /\ UNCHANGED <<plVars, batchVars, bk, ag, ex, memory, saves, extVars>>

\* get_strategies, lines 78-102
L_Rank ==
    /\ rank.pc = "rank"
    /\ rank' = [pc |-> "ranked", product_type |-> rank.product_type, top_n |-> rank.top_n,
                successful |-> Successful(ledger, rank.product_type, rank.top_n),
                failed |-> Failed(ledger, rank.product_type, rank.top_n)]
    /\ UNCHANGED <<plVars, batchVars, bk, ag, ex, ledger, memory, saves, extVars>>

InitLedger ==
    /\ IdleLedger
    /\ pl = <<>>
    /\ stream = <<>>
    /\ IdleExt
    /\ IdleBatch
    /\ IdleBackoff
    /\ IdleAgent
    /\ IdleExtract
    /\ IdleMemory

NextLedger == L_CallLog \/ L_CallRank \/ L_Log \/ L_Rank

SpecLedger == InitLedger /\ [][NextLedger]_vars

(***************************************************************************)
(* The success memory file (use_cases.py 29-65): _save_success_to_memory   *)
(* called one call after the other. `saves` lists the entries the calls    *)
(* appended (line 59), in the order of the calls. A text is given by its   *)
(* length.                                                                 *)
(***************************************************************************)
MaxSaves == 5
MemoryCap == 3
SnippetLen == 800

Products == {"p1", "p2", "p3", "p4"}
HtmlPairs == {<<10, 900>>, <<900, 10>>}

\* lines 54-55: str(html)[:800] + "..."
Snippet(html) == (IF html < SnippetLen THEN html ELSE SnippetLen) + 3

\* lines 51-56
NovoSucesso(product_name, original_html, approved_html) ==
    [product |-> product_name,
     original_text_snippet |-> Snippet(original_html),
     approved_text_snippet |-> Snippet(approved_html)]

\* mutant: the oldest entries are kept
KeepFirst(list) == IF Len(list) > MemoryCap THEN SubSeq(list, 1, MemoryCap) ELSE list
\* lines 61-62: memory[-3:]
KeepLast(list) ==
    IF Len(list) > MemoryCap THEN SubSeq(list, Len(list) - MemoryCap + 1, Len(list)) ELSE list

\* line 48: the product is in the memory already
Remembered(list, product_name) == \E i \in DOMAIN list : list[i].product = product_name

\* _save_success_to_memory, lines 39-65
M_Save ==
    /\ Len(saves) < MaxSaves
    /\ \E product_name \in Products, html \in HtmlPairs :
          IF Remembered(memory, product_name)
          THEN UNCHANGED <<memory, saves>>
          ELSE LET novo_sucesso == NovoSucesso(product_name, html[1], html[2]) IN
               /\ memory' = KeepLast(Append(memory, novo_sucesso))
               /\ saves' = Append(saves, novo_sucesso)
    /\ UNCHANGED <<plVars, batchVars, bk, ag, ex, ledger, rank, extVars>>

InitMemory ==
    /\ IdleMemory
    /\ pl = <<>>
    /\ stream = <<>>
    /\ IdleExt
    /\ IdleBatch
    /\ IdleBackoff
    /\ IdleAgent
    /\ IdleExtract
    /\ IdleLedger

NextMemory == M_Save

SpecMemory == InitMemory /\ [][NextMemory]_vars

(***************************************************************************)
(* google_search_limiter (pharma_seo_optimizer.py:10) and the threads that *)
(* call search_people_also_ask or search_related_topics (lines 58-124):    *)
(* both enter `with google_search_limiter:` around their one               *)
(* GoogleSearch.search call. gs.last is how the latest search call ended.  *)
(***************************************************************************)
SearchThreads == 6
SearchPermits == 5

Threads == 1..SearchThreads

\* mutant: the permit is given back only when the search returns
ReleasedOnReturn(permits, outcome) == IF outcome = "raised" THEN permits ELSE permits + 1
\* lines 66 and 107: the with statement releases on return and on exception
Released(permits, outcome) == permits + 1

\* a thread calls one of the two search functions and reaches the with statement
G_Call(t) ==
    /\ gs.th[t] = "out"
    /\ gs' = [gs EXCEPT !.th[t] = "waiting"]

\* threading.Semaphore.acquire: blocks while no permit is free
G_Acquire(t) ==
    /\ gs.th[t] = "waiting"
    /\ gs.permits > 0
    /\ gs' = [gs EXCEPT !.permits = @ - 1, !.th[t] = "searching"]

\* GoogleSearch.search returns or raises, and the with block is left
G_Leave(t) ==
    /\ gs.th[t] = "searching"
    /\ \E outcome \in {"returned", "raised"} :
          gs' = [gs EXCEPT !.permits = Released(@, outcome), !.th[t] = "out",
                           !.last = outcome]

searchFrame == <<plVars, batchVars, bk, ag, ex, ledger, rank, memory, saves, mr, fz, rp>>

G_Calls == \E t \in Threads : G_Call(t) /\ UNCHANGED searchFrame
G_Acquires == \E t \in Threads : G_Acquire(t) /\ UNCHANGED searchFrame
G_Leaves == \E t \in Threads : G_Leave(t) /\ UNCHANGED searchFrame

InitSearch ==
    /\ gs = [pc |-> "run", permits |-> SearchPermits, last |-> "none",
             th |-> [t \in Threads |-> "out"]]
    /\ pl = <<>>
    /\ stream = <<>>
    /\ IdleBatch
    /\ IdleBackoff
    /\ IdleAgent /\ IdleExtract /\ IdleLedger /\ IdleMemory
    /\ IdleMerchant /\ IdleFinalize /\ IdleReprocess

NextSearch == G_Calls \/ G_Acquires \/ G_Leaves

SpecSearch == InitSearch /\ [][NextSearch]_vars

(***************************************************************************)
(* SeoOptimizerAgent._finalize_for_vtex(html_content, product_name)        *)
(* (pharma_seo_optimizer.py 126-145). An html text is the sequence of its  *)
(* top-level nodes:                                                        *)
(*   "p"   a paragraph with text       "p0"  a paragraph without text      *)
(*   "ul"  a list with an item         "ul0" a list without item           *)
(*   "t"   a text node                                                     *)
(* html_content can also be None or a value that is no string.             *)
(***************************************************************************)
MaxNodes == 2

Nodes == {"p", "p0", "ul", "ul0", "t"}
HtmlTexts == UNION {[1..n -> Nodes] : n \in 0..MaxNodes}
HtmlInputs ==
    {[type |-> "NoneType", nodes |-> <<>>], [type |-> "dict", nodes |-> <<>>]}
        \cup {[type |-> "str", nodes |-> t] : t \in HtmlTexts}

Placeholder(product_name) == [kind |-> "placeholder", product |-> product_name, nodes |-> <<>>]
Html(nodes) == [kind |-> "html", product |-> "", nodes |-> nodes]

\* line 128: not html_content or not isinstance(html_content, str)
Invalid(html_content) == html_content.type # "str" \/ html_content.nodes = <<>>

\* lines 133-138: the paragraphs without text and the lists without item go
Decomposed(nodes) == SelectSeq(nodes, LAMBDA n : n \notin {"p0", "ul0"})

\* mutant: no closing paragraph is appended
WithoutFinalTag(nodes) == nodes
\* lines 139-140: soup.append(soup.new_tag('p'))
WithFinalTag(nodes) == Append(nodes, "p0")

\* lines 126-145; parsed: BeautifulSoup raised nothing
FinalizeForVtexHtml(html_content, product_name, parsed) ==
    IF Invalid(html_content)
    THEN Placeholder(product_name)
    ELSE IF parsed
         THEN Html(WithFinalTag(Decomposed(html_content.nodes)))
         ELSE Html(html_content.nodes)

F_Finalize ==
    /\ fz.pc = "call"
    /\ \E parsed \in BOOLEAN :
          fz' = [fz EXCEPT !.pc = "returned", !.parsed = parsed,
                           !.result = FinalizeForVtexHtml(fz.html_content, fz.product_name, parsed)]
    /\ UNCHANGED <<plVars, batchVars, bk, ag, ex, ledger, rank, memory, saves, mr, gs, rp>>

InitFinalize ==
    /\ \E html_content \in HtmlInputs, product_name \in {"P", "Q"} :
          fz = [pc |-> "call", html_content |-> html_content, product_name |-> product_name,
                parsed |-> TRUE, result |-> Html(<<>>)]
    /\ pl = <<>>
    /\ stream = <<>>
    /\ IdleBatch
    /\ IdleBackoff
    /\ IdleAgent /\ IdleExtract /\ IdleLedger /\ IdleMemory
    /\ IdleMerchant /\ IdleSearch /\ IdleReprocess

NextFinalize == F_Finalize

SpecFinalize == InitFinalize /\ [][NextFinalize]_vars

(***************************************************************************)
(* run_merchant_recovery_pipeline (use_cases.py 312-441): a first cleaning *)
(* by the refiner, then a loop in which the Merchant Simulator evaluates   *)
(* the text and the refiner corrects it. The run takes row_data alone and  *)
(* calls the language model alone: no step of it waits for a person.       *)
(* Runs follow one another on the same success memory.                     *)
(***************************************************************************)
MaxRuns == 2
MerchantMaxAttempts == 5

Statuses == {"APROVADO", "REPROVADO"}
Scores == {50, 90}
NoEval == [json |-> FALSE, status |-> "REPROVADO", score |-> 0]
Evaluations == {NoEval} \cup {[json |-> TRUE, status |-> st, score |-> sc] : st \in Statuses, sc \in Scores}

\* mutant: every evaluation counts as an approval
ApprovedAlways(status_google, score) == TRUE
\* line 385
Approved(status_google, score) == status_google = "APROVADO" \/ score >= 90

merchantFrame == <<plVars, batchVars, bk, ag, ex, ledger, rank, fz, gs, rp>>

\* lines 318-332: the row is read, the memory is loaded for the prompt
MR_Start ==
    /\ mr.pc \in {"idle", "returned"}
    /\ mr.pc = "returned" => mr.run < MaxRuns
    /\ \E product_name \in Products, html \in HtmlPairs :
          mr' = [pc |-> "initial", run |-> (IF mr.pc = "idle" THEN 1 ELSE mr.run + 1),
                 product_name |-> product_name,
                 html_content_atual |-> html[1], html_atual |-> html[2],
                 attempt |-> 0, score |-> 0, status_google |-> "REPROVADO",
                 status_processamento |-> "Recuperado",
                 memoria_recente |-> memory]
    /\ UNCHANGED <<memory, saves, merchantFrame>>

\* lines 336-362: refined: the first cleaning gave html_content;
\* long: the cleaned text has more than 20 characters
MR_Initial ==
    /\ mr.pc = "initial"
    /\ \E refined \in BOOLEAN, long \in BOOLEAN :
          IF ~refined
          THEN mr' = [mr EXCEPT !.pc = "finalize", !.html_atual = mr.html_content_atual,
                                !.status_processamento = "Erro (Mantido Original)"]
          ELSE mr' = [mr EXCEPT !.pc = IF long THEN "evaluate" ELSE "finalize"]
    /\ UNCHANGED <<memory, saves, merchantFrame>>

\* lines 363-404: one evaluation by the simulator
MR_Evaluate ==
    /\ mr.pc = "evaluate"
    /\ mr.attempt < MerchantMaxAttempts /\ mr.status_google # "APROVADO"
    /\ \E eval_json \in Evaluations :
          LET attempt == mr.attempt + 1 IN
          IF ~eval_json.json
          THEN /\ mr' = [mr EXCEPT !.pc = "finalize", !.attempt = attempt]
               /\ UNCHANGED <<memory, saves>>
          ELSE IF Approved(eval_json.status, eval_json.score)
          THEN /\ mr' = [mr EXCEPT !.pc = "finalize", !.attempt = attempt,
                                   !.status_google = eval_json.status, !.score = eval_json.score,
                                   !.status_processamento = "Recuperado (Aprovado)"]
               /\ IF Remembered(memory, mr.product_name)
                  THEN UNCHANGED <<memory, saves>>
                  ELSE LET novo_sucesso ==
                               NovoSucesso(mr.product_name, mr.html_content_atual, mr.html_atual) IN
                       /\ memory' = KeepLast(Append(memory, novo_sucesso))
                       /\ saves' = Append(saves, novo_sucesso)
          ELSE /\ mr' = [mr EXCEPT !.pc = IF attempt = MerchantMaxAttempts THEN "finalize" ELSE "refine",
                                   !.attempt = attempt,
                                   !.status_google = eval_json.status, !.score = eval_json.score,
                                   !.status_processamento =
                                       IF attempt = MerchantMaxAttempts
                                       THEN "Recuperado (Limitado)" ELSE mr.status_processamento]
               /\ UNCHANGED <<memory, saves>>
    /\ UNCHANGED merchantFrame

\* lines 406-428: the refiner corrects the text, or the loop ends
MR_Refine ==
    /\ mr.pc = "refine"
    /\ \E refined \in BOOLEAN :
          mr' = [mr EXCEPT !.pc = IF refined THEN "evaluate" ELSE "finalize"]
    /\ UNCHANGED <<memory, saves, merchantFrame>>

\* lines 431-441
MR_Finalize ==
    /\ mr.pc = "finalize"
    /\ mr' = [mr EXCEPT !.pc = "returned"]
    /\ UNCHANGED <<memory, saves, merchantFrame>>

InitMerchant ==
    /\ IdleMerchant
    /\ pl = <<>>
    /\ stream = <<>>
    /\ IdleBatch
    /\ IdleBackoff
    /\ IdleAgent /\ IdleExtract /\ IdleLedger /\ IdleMemory
    /\ IdleFinalize /\ IdleSearch /\ IdleReprocess

NextMerchant == MR_Start \/ MR_Initial \/ MR_Evaluate \/ MR_Refine \/ MR_Finalize

SpecMerchant == InitMerchant /\ [][NextMerchant]_vars

(***************************************************************************)
(* reprocess_items (api_automatizada.py 405-489): the rejected items of a  *)
(* review are run again, one after another, by event_stream.               *)
(*   raw      : the item's rawJsonContent: "json" (it decodes), or         *)
(*              "malformed" (json.loads raises)                            *)
(*   previous : what rawJsonContent decodes to                             *)
(*   feedback : the reviewer's feedback text                               *)
(*   cat      : medicine: what the catalog holds for the item's SKU        *)
(*   parse    : the done chunk of the item's run splits on 'data: ' into   *)
(*              its JSON payload                                           *)
(*   script   : the answers of the collaborators of the item's run         *)
(***************************************************************************)
MaxItems == 2

ItemCase(raw, previous, feedback, cat, parse, script) ==
    [raw |-> raw, previous |-> previous, feedback |-> feedback,
     cat |-> cat, parse |-> parse, script |-> script]

\* items whose run ends with done at once or after a refinement, with either
\* of two feedback texts and either of two previous contents; items that fail
\* a catalog check, whose done chunk does not parse, whose run ends with an
\* error event at once or after an attempt without content, and an item whose
\* rawJsonContent does not decode
ItemCases ==
    {ItemCase("json", "C1", "F1", CatalogOk, TRUE, BatchScript("A", 95)),
     ItemCase("json", "C1", "F1", CatalogOk, TRUE, BatchScript("A", 94)),
     ItemCase("json", "C1", "F2", CatalogOk, TRUE, BatchScript("A", 94)),
     ItemCase("json", "C2", "F1", CatalogOk, TRUE, BatchScript("A", 94)),
     ItemCase("json", "C1", "F1", CatalogRow(FALSE, FALSE, FALSE, FALSE), TRUE, BatchScript("A", 95)),
     ItemCase("json", "C1", "F1", CatalogRow(TRUE, FALSE, TRUE, FALSE), TRUE, BatchScript("A", 95)),
     ItemCase("json", "C1", "F1", CatalogOk, FALSE, BatchScript("A", 95)),
     ItemCase("json", "C1", "F1", CatalogOk, TRUE, BatchScript("raise", 0)),
     ItemCase("json", "C1", "F1", CatalogOk, TRUE, BatchScript(None, 0)),
     ItemCase("malformed", None, "F1", CatalogOk, TRUE, BatchScript("A", 95))}

Requests ==
    [medicine : BOOLEAN, read : {"ok"}, items : UNION {[1..n -> ItemCases] : n \in 1..MaxItems}]
        \cup [medicine : {TRUE}, read : {"catalog_fail"}, items : {<<>>}]
        \cup [medicine : {FALSE}, read : {"items_fail"}, items : {<<>>}]

\* lines 466-475: the checks of a medicine item, in the order event_stream
\* makes them; the first unmet one raises ValueError
FirstUnmetReprocess(cat) ==
    CASE ~cat.found -> "no_catalog"
      [] ~cat.link -> "no_link"
      [] ~cat.text -> "no_text"
      [] OTHER -> "ok"

\* lines 487-489
ReprocessErrorLog(sku, reason) == Chunk("log", "error", reason, 0, None, sku)

reprocessFrame == <<batchVars, bk, ag, ex, ledger, rank, memory, saves, mr, fz, gs>>

Item == rp.req.items[rp.i]

\* the for statement taking its next item, or running out
NextItem(q) ==
    IF q.i < Len(q.req.items) THEN [q EXCEPT !.pc = "item", !.i = @ + 1]
    ELSE [q EXCEPT !.pc = "returned"]

\* except Exception (lines 487-489): the item's error log is yielded and the
\* loop goes on
ItemFailed(reason) ==
    /\ stream' = Append(stream, ReprocessErrorLog(rp.i, reason))
    /\ rp' = NextItem([rp EXCEPT !.outcome[rp.i] = "failed", !.errors[rp.i] = @ + 1])

\* lines 427-445: the original sheet is read inside a try, the catalog outside
RP_Read ==
    /\ rp.pc = "start"
    /\ CASE rp.req.read = "items_fail" ->
                /\ stream' = Append(stream, BatchLog("critical", "error"))
                /\ rp' = [rp EXCEPT !.pc = "returned"]
         [] rp.req.read = "catalog_fail" ->
                /\ rp' = [rp EXCEPT !.pc = "crashed"]
                /\ stream' = stream
         [] OTHER ->
                /\ rp' = NextItem(rp)
                /\ stream' = stream
    /\ UNCHANGED <<pl, reprocessFrame>>

\* lines 447-480: the head of one iteration. rawJsonContent is decoded before
\* the try statement is entered; the checks and the creation of the run are
\* inside it
RP_Item ==
    /\ rp.pc = "item"
    /\ IF Item.raw # "json"
       THEN /\ rp' = [rp EXCEPT !.pc = "crashed"]
            /\ UNCHANGED <<pl, stream>>
       ELSE LET unmet == IF rp.req.medicine THEN FirstUnmetReprocess(Item.cat) ELSE "ok"
                ptype == IF rp.req.medicine THEN "medicine" ELSE "beauty"
            IN  IF unmet # "ok"
                THEN ItemFailed(unmet) /\ pl' = pl
                ELSE /\ pl' = <<InitRunWith([Item.script EXCEPT !.ptype = ptype],
                                            Item.previous, Item.feedback)>>
                     /\ rp' = [rp EXCEPT !.pc = "pipeline"]
                     /\ stream' = stream
    /\ UNCHANGED reprocessFrame

\* lines 480-486: one chunk of the item's run
RP_Chunk ==
    /\ rp.pc = "pipeline"
    /\ pl[1].pc = "emit"
    /\ IF pl[1].chunk.kind = "done" /\ ~Item.parse
       THEN /\ ItemFailed("json")
            /\ pl' = <<>>
       ELSE /\ stream' = Append(stream, [pl[1].chunk EXCEPT !.sku = rp.i])
            /\ pl' = [pl EXCEPT ![1] = Resumed(@)]
            /\ rp' = [rp EXCEPT !.outcome[rp.i] =
                                    IF pl[1].chunk.kind = "done" THEN "done" ELSE @,
                                !.errors[rp.i] =
                                    IF pl[1].chunk.level = "error" THEN @ + 1 ELSE @,
                                !.presented[rp.i] = pl[1].calls]
    /\ UNCHANGED reprocessFrame

\* the item's run is exhausted
RP_End ==
    /\ rp.pc = "pipeline"
    /\ pl[1].pc = "end"
    /\ rp' = NextItem([rp EXCEPT !.outcome[rp.i] = IF @ = "done" THEN @ ELSE "failed",
                                 !.presented[rp.i] = pl[1].calls])
    /\ pl' = <<>>
    /\ UNCHANGED <<stream, reprocessFrame>>

\* the steps of the item's run between two yields
RP_Start == rp.pc = "pipeline" /\ P_Start(1) /\ UNCHANGED <<stream, rp, reprocessFrame>>
RP_Sensitive == rp.pc = "pipeline" /\ P_Sensitive(1) /\ UNCHANGED <<stream, rp, reprocessFrame>>
RP_Agent == rp.pc = "pipeline" /\ P_Agent(1) /\ UNCHANGED <<stream, rp, reprocessFrame>>
RP_Next == rp.pc = "pipeline" /\ P_Next(1) /\ UNCHANGED <<stream, rp, reprocessFrame>>
RP_Audit == rp.pc = "pipeline" /\ P_Audit(1) /\ UNCHANGED <<stream, rp, reprocessFrame>>
RP_Compare == rp.pc = "pipeline" /\ P_Compare(1) /\ UNCHANGED <<stream, rp, reprocessFrame>>
RP_Finalize == rp.pc = "pipeline" /\ P_Finalize(1) /\ UNCHANGED <<stream, rp, reprocessFrame>>

InitReprocess ==
    /\ \E req \in Requests :
          rp = [pc |-> "start", req |-> req, i |-> 0,
                outcome |-> [n \in DOMAIN req.items |-> "none"],
                errors |-> [n \in DOMAIN req.items |-> 0],
                presented |-> [n \in DOMAIN req.items |-> <<>>]]
    /\ pl = <<>>
    /\ stream = <<>>
    /\ IdleBatch
    /\ IdleBackoff
    /\ IdleAgent /\ IdleExtract /\ IdleLedger /\ IdleMemory
    /\ IdleMerchant /\ IdleFinalize /\ IdleSearch

NextReprocess ==
    \/ RP_Read
    \/ RP_Item
    \/ RP_Chunk
    \/ RP_End
    \/ RP_Start
    \/ RP_Sensitive
    \/ RP_Agent
    \/ RP_Next
    \/ RP_Audit
    \/ RP_Compare
    \/ RP_Finalize

SpecReprocess == InitReprocess /\ [][NextReprocess]_vars

(***************************************************************************)
(* Properties of one run of the quality loop (checked under Spec).         *)
(***************************************************************************)
Count(seq, kind, tag) ==
    Cardinality({i \in DOMAIN seq : seq[i].kind = kind /\ (tag = "" \/ seq[i].tag = tag)})

\* C1: within one run highest_score never decreases, and the best content/score
\* pair is replaced only by the comparison of an attempt whose audit score is
\* strictly greater than the current best (an equal score keeps the earlier one).
C1_BestMonotone ==
    [][\A r \in DOMAIN pl :
         /\ pl'[r].highest >= pl[r].highest
         /\ (pl'[r].best # pl[r].best \/ pl'[r].highest # pl[r].highest)
              => /\ pl[r].pc = "compare"
                 /\ pl[r].audit.val > pl[r].highest
                 /\ pl'[r].highest = pl[r].audit.val
                 /\ pl'[r].best = pl[r].cur]_vars

\* an equal score at attempt 2 for another content: the first content is kept
C1_Witness ==
    \E r \in DOMAIN pl :
        /\ pl[r].pc = "finalize"
        /\ Len(pl[r].audits) = 2
        /\ pl[r].audits[1].val = pl[r].audits[2].val
        /\ pl[r].audits[2].of # pl[r].audits[1].of
        /\ pl[r].best = pl[r].audits[1].of

\* C2: when the first attempt's audit score is >= 95 the loop exits after one
\* attempt: one generator call, one auditor call, no refiner call, no second
\* quality cycle, and the run ends with done.
C2_EarlyExit ==
    \A r \in DOMAIN pl :
        (/\ Len(pl[r].audits) >= 1
         /\ pl[r].audits[1].kind = "num"
         /\ pl[r].audits[1].val >= 95)
        => /\ pl[r].attempt = 1
           /\ pl[r].nGen = 1 /\ pl[r].nAud = 1 /\ pl[r].nRef = 0
           /\ Count(stream, "log", "cycle") + (IF pl[r].chunk.tag = "cycle" THEN 1 ELSE 0) = 1
           /\ pl[r].pc = "end" => Count(stream, "done", "") = 1

C2_Witness ==
    \E r \in DOMAIN pl :
        /\ pl[r].pc = "end"
        /\ Len(pl[r].audits) = 1
        /\ pl[r].audits[1].val >= 95
        /\ Count(stream, "done", "") = 1

\* C3: a run whose generator yields no content at attempt 1 and whose attempt 2
\* yields no content either ends after two skipped attempts (two warning logs)
\* with the failure report, and no exception is raised on the way.
C3_FailedAfterTwoAttempts ==
    \A r \in DOMAIN pl :
        (/\ pl[r].pc = "end"
         /\ pl[r].nGen = 1
         /\ pl[r].script.gen = None
         /\ pl[r].script.ref = None)
        => /\ pl[r].exc = ""
           /\ Count(stream, "log", "attempt_failed") = 2
           /\ Count(stream, "error", "") = 0
           /\ stream[Len(stream)].tag = "failed"

\* C4: a run in which an attempt produced content (the auditor was given it)
\* ends with exactly one done event, whatever score the auditor returned;
\* stated for the runs in which nothing raises.
C4_DoneWheneverContent ==
    \A r \in DOMAIN pl :
        (pl[r].pc = "end" /\ pl[r].nAud >= 1 /\ pl[r].exc = "")
        => /\ Count(stream, "done", "") = 1
           /\ stream[Len(stream)].kind = "done"

\* C5: the done event carries the maximum audit score of the run's attempts and
\* the content of the earliest attempt that obtained it.
C5_DoneCarriesBest ==
    \A r \in DOMAIN pl : \A i \in DOMAIN stream :
        stream[i].kind = "done" =>
            LET a == pl[r].audits
                m == MaxOf({a[k].val : k \in DOMAIN a})
                first == CHOOSE k \in DOMAIN a :
                            a[k].val = m /\ \A j \in DOMAIN a : a[j].val = m => k <= j
            IN  /\ \A k \in DOMAIN a : a[k].kind = "num"
                /\ stream[i].value = m
                /\ stream[i].content = a[first].of

C5_Witness ==
    \E r \in DOMAIN pl :
        /\ Count(stream, "done", "") = 1
        /\ Len(pl[r].audits) = 2
        /\ pl[r].audits[2].of # pl[r].audits[1].of
        /\ pl[r].audits[2].val = pl[r].audits[1].val

\* C6: an exception raised during a run produces exactly one error event, the
\* last event of the run, and no done event; a medicine run without bula text
\* raises before any agent is invoked; an error event only reports an exception.
C6_ErrorEventOnException ==
    \A r \in DOMAIN pl :
        /\ (pl[r].pc = "end" /\ pl[r].exc # "")
             => /\ Count(stream, "error", "") = 1
                /\ stream[Len(stream)].kind = "error"
                /\ Count(stream, "done", "") = 0
        /\ pl[r].exc = "ValueError_bula"
             => pl[r].nSens = 0 /\ pl[r].nGen = 0 /\ pl[r].nAud = 0 /\ pl[r].nRef = 0
        /\ pl[r].exc = "" => Count(stream, "error", "") = 0

C6_Witness ==
    \E r \in DOMAIN pl :
        /\ pl[r].pc = "end"
        /\ pl[r].exc = "ValueError_bula"
        /\ Len(stream) = 1

(***************************************************************************)
(* Properties of a batch (checked under SpecBatch).                        *)
(***************************************************************************)
\* the workers inside `async with semaphore`
Holders ==
    {r \in Rows : wk[r].pc \in {"progress", "download", "pipeline", "done", "skip_log"}}
Spawned == \A r \in Rows : wk[r].pc # "unborn"

SummaryEmitted == BagIn(BatchLog("summary", "info"), yielded)
FinishedEmitted == BagIn(Chunk("finished", "", "", 0, None, 0), yielded)

\* C7: at most MAX_CONCURRENT_REQUESTS workers hold the row permit at any time,
\* and a worker that has left (by any path) holds none: the free permits and the
\* holders always add up to the cap.
C7_RowPermitCap ==
    /\ Cardinality(Holders) <= MAX_CONCURRENT_REQUESTS
    /\ Spawned => sem >= 0 /\ sem + Cardinality(Holders) = MAX_CONCURRENT_REQUESTS

\* the cap is reached again after a worker has left, while a row still waits
\* or has just taken the freed permit
C7_Witness ==
    /\ Cardinality(Holders) = MAX_CONCURRENT_REQUESTS
    /\ sem = 0
    /\ \E r \in Rows : wk[r].pc = "finished"

\* C8: an exception raised in a worker adds exactly 1 to summary.skipped and
\* touches nothing of the sibling workers, their runs, the chunks already in
\* the queue, the results or the coordinator; the
\* worker then puts one warning log naming its SKU and the reason, and its
\* sentinel; when the batch is summarised every row has run to its end and the
\* warning of each skipped row has been yielded exactly once.
C8_RowIsolation ==
    /\ [][\A r \in Rows :
            /\ (wk[r].pc # "skip_log" /\ wk'[r].pc = "skip_log")
                 => /\ summary' = [summary EXCEPT !.skipped = @ + 1]
                    /\ \A o \in Rows \ {r} : wk'[o] = wk[o] /\ pl'[o] = pl[o]
                    /\ es' = es /\ resultados' = resultados
                    /\ Len(queue') >= Len(queue) /\ SubSeq(queue', 1, Len(queue)) = queue
            /\ (wk[r].pc = "skip_log" /\ wk'[r].pc # "skip_log")
                 => /\ wk'[r].pc = "finished"
                    /\ queue' = queue \o <<SkipChunk(wk[r].row.sku, wk[r].reason), Sentinel>>
                    /\ summary' = summary
                    /\ \A o \in Rows \ {r} : wk'[o] = wk[o] /\ pl'[o] = pl[o]]_vars
    /\ [](SummaryEmitted =>
            \A r \in Rows :
               /\ wk[r].pc = "finished"
               /\ wk[r].reason # ""
                    => CopiesIn(SkipChunk(wk[r].row.sku, wk[r].reason), yielded) = 1)

\* a batch that ended with one row skipped and a sibling row done
C8_Witness ==
    /\ FinishedEmitted
    /\ \E r, o \in Rows :
         /\ wk[r].reason # ""
         /\ \E i \in DOMAIN resultados : resultados[i].sku = wk[o].row.sku

\* C9: when the summary is emitted every row is counted exactly once, as a
\* success or as skipped: success + skipped is the number of rows.
C9_EveryRowCounted ==
    SummaryEmitted => es.reported.success + es.reported.skipped = NumRows

\* C10: the summary is emitted only when every worker has put its sentinel and
\* ended and every chunk the workers put has been yielded; finished only after
\* the summary.
C10_SummaryAfterAllRows ==
    /\ SummaryEmitted =>
         /\ \A r \in Rows : wk[r].pc = "finished"
         /\ es.finished_workers = NumRows
         /\ queue = <<>>
    /\ FinishedEmitted => SummaryEmitted

C10_Witness ==
    /\ FinishedEmitted
    /\ es.last = "finished"
    /\ \A r \in Rows : BagIn(ProgressChunk(wk[r].current, wk[r].row.sku), yielded)

\* the rows whose worker has taken its permit
Started == {r \in Rows : wk[r].pc \notin {"unborn", "waiting"}}
ProgressYielded == {c \in BagToSet(yielded) : c.kind = "progress"}

\* C11: the `current` values of the progress events of a batch of N rows are
\* exactly 1..N, each once: at every moment the rows that have started hold the
\* values 1..counter, one each, the value being taken with the permit; every
\* progress event yielded carries the value of its row, once.
C11_ProgressCountsOnce ==
    /\ counter = Cardinality(Started)
    /\ {wk[r].current : r \in Started} = 1..counter
    /\ \A r, o \in Started : r # o => wk[r].current # wk[o].current
    /\ \A c \in ProgressYielded :
         /\ CopiesIn(c, yielded) = 1
         /\ \E r \in Started : c.value = wk[r].current /\ c.sku = wk[r].row.sku
    /\ SummaryEmitted => {c.value : c \in ProgressYielded} = 1..NumRows

\* the row that started third has ended while the row that started first, not
\* the first of the sheet, is still in its run
C11_Witness ==
    \E r, o \in Rows :
        /\ r # 1
        /\ wk[r].current = 1 /\ wk[r].pc = "pipeline"
        /\ wk[o].current = NumRows /\ wk[o].pc = "finished"
        /\ BagIn(ProgressChunk(NumRows, wk[o].row.sku), yielded)

\* the row's own run ended with done and the worker recorded its result
Succeeded(r) ==
    /\ wk[r].pc = "finished"
    /\ wk[r].reason = ""
    /\ pl[r].pc = "end" /\ pl[r].exc = "" /\ pl[r].best # None

\* C12: in the draft of a batch the fields of a row are changed only if that
\* row's own run ended with done; every other row keeps its original values,
\* also when another row of the same SKU succeeded.
C12_OnlyOwnResultWritten ==
    \A r \in Rows : es.draft[r] # "original" => Succeeded(r)

\* C13: when the items sheet or the catalog cannot be read the stream yields
\* exactly one error-level log, its last event, no worker is started and no
\* progress, done, summary or finished event is yielded; a batch ends without
\* its summary only in this case.
C13_ReadFailureAborts ==
    /\ (es.pc = "closed" /\ (es.read = "items_fail" \/ (es.medicine /\ es.read = "catalog_fail")))
         => /\ CopiesIn(BatchLog("fatal", "error"), yielded) = 1
            /\ es.last = "fatal"
            /\ \A c \in BagToSet(yielded) :
                 /\ c.kind = "log"
                 /\ c.tag # "summary"
                 /\ c.level = "error" => c = BatchLog("fatal", "error")
            /\ \A r \in Rows : wk[r].pc = "unborn" /\ pl[r].pc = "start"
            /\ counter = 0
    /\ (es.pc = "closed" /\ ~SummaryEmitted)
         => es.read = "items_fail" \/ (es.medicine /\ es.read = "catalog_fail")

\* the catalog of a medicine batch is unreadable: the mode log, then the fatal one
C13_Witness ==
    /\ es.pc = "closed"
    /\ es.medicine /\ es.read = "catalog_fail"
    /\ BagCardinality(yielded) = 2
    /\ BagIn(BatchLog("fatal", "error"), yielded)

\* C14: a row of a medicine batch that fails a catalog check (no catalog row,
\* not marked valid, blank bula link, no text from the bula) is skipped with
\* the reason of the first check it fails in that order, and its run is never
\* created: no agent is called for it.
C14_PreconditionsShortCircuit ==
    \A r \in Rows :
        LET cat == wk[r].row.cat IN
        (es.medicine /\ ~(cat.found /\ cat.valid /\ cat.link /\ cat.text))
        => /\ pl[r].pc = "start" /\ pl[r].script.ptype = ""
           /\ pl[r].nSens = 0 /\ pl[r].nGen = 0 /\ pl[r].nAud = 0 /\ pl[r].nRef = 0
           /\ wk[r].pc \notin {"pipeline", "done"}
           /\ wk[r].pc \in {"skip_log", "finished"}
                => wk[r].reason = (IF ~cat.found THEN "no_catalog"
                                   ELSE IF ~cat.valid THEN "not_valid"
                                   ELSE IF ~cat.link THEN "no_link"
                                   ELSE "no_text")

\* a row that is not marked valid and has no link either, skipped as not valid,
\* and a row whose download gave no text, in a batch that has been summarised
C14_Witness ==
    /\ SummaryEmitted
    /\ \E r, o \in Rows :
         /\ wk[r].reason = "not_valid" /\ ~wk[r].row.cat.link
         /\ BagIn(SkipChunk(wk[r].row.sku, "not_valid"), yielded)
         /\ wk[o].reason = "no_text"

\* the steps of the run of row o
R_Step(o) ==
    /\ InRun(o)
    /\ \/ P_Start(o) \/ P_Sensitive(o) \/ P_Agent(o) \/ P_Next(o)
       \/ P_Audit(o) \/ P_Compare(o) \/ P_Finalize(o)
    /\ UNCHANGED runFrame

\* whatever the task of row r is doing, the coordinator can take the next item
\* of the queue, a waiting row can take a free permit and the run of another
\* row can take its next step
SiblingsCanStep(r) ==
    /\ (es.pc = "loop" /\ queue # <<>> /\ es.finished_workers < NumRows)
         => ENABLED E_Get
    /\ \A o \in Rows \ {r} :
         /\ (es.pc = "loop" /\ wk[o].pc = "waiting" /\ sem > 0) => ENABLED W_Acquire(o)
         /\ (wk[o].pc = "pipeline" /\ pl[o].pc \notin {"emit", "end", "closed"})
              => ENABLED R_Step(o)

C19_DownloadDoesNotStall ==
    \A r \in Rows : wk[r].pc = "download" => SiblingsCanStep(r)

\* C20: summary and resultados_finais are changed only by steps of the
\* coordinator: a step that changes either leaves every worker and every run
\* as it was.
C20_OnlyCoordinatorWrites ==
    [][(summary' # summary \/ resultados' # resultados)
          => (wk' = wk /\ pl' = pl)]_vars

(***************************************************************************)
(* Properties of one call of _execute_prompt_with_backoff (checked under   *)
(* SpecBackoff).                                                           *)
(***************************************************************************)
\* C15: the call never raises; it makes at most max_retries model calls; a text
\* it returns is the text of its latest call, every earlier call having failed
\* transiently and been followed by a sleep; it returns None once max_retries
\* calls have all failed transiently, an empty or missing text counting as a
\* transient failure.
C15_BackoffReturns ==
    /\ bk.pc \in {"loop", "sleep", "returned"}
    /\ bk.nCalls <= bk.max_retries
    /\ bk.pc = "returned" =>
         IF bk.result.some
         THEN /\ bk.last = "text"
              /\ bk.result.text = bk.nCalls
              /\ Len(bk.sleeps) = bk.nCalls - 1
         ELSE bk.last # "text"
    /\ (bk.pc = "returned" /\ Len(bk.sleeps) = bk.max_retries)
         => ~bk.result.some /\ bk.nCalls = bk.max_retries
    /\ (bk.pc = "returned" /\ Transient(bk.last))
         => bk.nCalls = bk.max_retries /\ Len(bk.sleeps) = bk.max_retries
    /\ (bk.pc = "loop" /\ bk.last = "empty") => Len(bk.sleeps) = bk.nCalls

\* the default budget of 5 calls used up, the last answer an empty text
C15_Witness ==
    /\ bk.pc = "returned"
    /\ bk.max_retries = 5
    /\ bk.nCalls = 5
    /\ bk.last = "empty"
    /\ ~bk.result.some

\* C16: the first exception that is none of the three transient ones makes the
\* call return None at once: the step that meets it ends the call without a
\* sleep, and no model call or sleep follows, whatever budget remains.
C16_FatalReturnsAtOnce ==
    [][/\ (bk'.nCalls # bk.nCalls /\ bk'.last = "other")
            => /\ bk'.pc = "returned"
               /\ ~bk'.result.some
               /\ bk'.sleeps = bk.sleeps
       /\ bk.last = "other" => bk' = bk]_vars

\* the second call of five raises it: one sleep before, three calls unused
C16_Witness ==
    /\ bk.pc = "returned"
    /\ bk.last = "other"
    /\ bk.max_retries = 5
    /\ bk.nCalls = 2
    /\ Len(bk.sleeps) = 1

\* C17: the k-th sleep of a call lasts min(2 * 2^(k-1), 60) seconds; no sleep
\* exceeds 60 and the sleeps never get shorter.
C17_WaitSchedule ==
    \A k \in DOMAIN bk.sleeps :
        /\ bk.sleeps[k] = (IF 2 * 2^(k-1) < 60 THEN 2 * 2^(k-1) ELSE 60)
        /\ bk.sleeps[k] <= 60
        /\ k > 1 => bk.sleeps[k] >= bk.sleeps[k-1]

\* the cap is reached at the sixth sleep and kept at the seventh
C17_Witness ==
    /\ Len(bk.sleeps) >= 7
    /\ bk.sleeps[5] = 32
    /\ bk.sleeps[6] = 60
    /\ bk.sleeps[7] = 60

(***************************************************************************)
(* Properties of the JSON extractor (checked under SpecExtract).           *)
(***************************************************************************)
Extracted(variant) == ex.pc = "run" /\ ex.results[variant] # Pending

HasBracePair(t) == \E i, j \in DOMAIN t : i < j /\ t[i] = "{" /\ t[j] = "}"

\* the objects that some stretch of the text denotes
ObjectsIn(t) ==
    {Canon(Cleaned(SubSeq(t, i, j)), FALSE) :
        <<i, j>> \in {p \in (DOMAIN t) \X (DOMAIN t) : Parses(Cleaned(SubSeq(t, p[1], p[2])))}}

\* C25: for a valid JSON object text J, the extractor returns the same object
\* for J alone, for J in a fenced json block, and for either of them inside
\* surrounding narrative text.
C25_FencingAndNarrativeIrrelevant ==
    (ex.pc = "run" /\ ex.json \in JsonObjects) =>
        \A a, b \in Variants :
            (Extracted(a) /\ Extracted(b)) => ex.results[a] = ex.results[b]

\* C26: the extractor never raises; it returns None for the empty text, for a
\* text with no opening brace followed later by a closing brace, and whenever
\* the candidate does not parse, so that an object it returns is always the
\* parse of a stretch of the text.
C26_ExtractorTotal ==
    \A v \in Variants :
        Extracted(v) =>
            LET t == TextOf(ex, v)
                r == ex.results[v]
            IN  /\ r.kind \in {"none", "obj"}
                /\ t = <<>> => r = NoObject
                /\ ~HasBracePair(t) => r = NoObject
                /\ r.kind = "obj" => r.obj \in ObjectsIn(t)

\* a text with a brace pair whose candidate does not parse has been extracted
C26_Witness ==
    \E v \in Variants :
        /\ Extracted(v)
        /\ HasBracePair(TextOf(ex, v))
        /\ ex.results[v] = NoObject

(***************************************************************************)
(* Properties of the agents (checked under SpecAgent).                     *)
(***************************************************************************)
Returned(agent) == ag.pc = "returned" /\ ag.agent = agent

\* the model call returned nothing, or no stretch of its text is a JSON object
NothingToExtract == ~bk.result.some \/ ObjectsIn(ag.response) = {}

\* C21: an auditor of either domain never returns None; when the model call
\* returned nothing or nothing can be extracted from its text, it returns the
\* fallback audit, whose total_score is 0.
C21_AuditorNeverNull ==
    Returned("auditor") =>
        /\ ag.result # NoObject
        /\ ag.result # Pending
        /\ NothingToExtract => (ag.result = FallbackAudit /\ ag.result.total_score = 0)

\* a beauty auditor returned the fallback after a model call whose text holds no
\* JSON object
C21_Witness ==
    /\ Returned("auditor")
    /\ ag.result = FallbackAudit
    /\ ag.domain = "beauty"
    /\ bk.result.some
    /\ ObjectsIn(ag.response) = {}

\* C22: a refiner of either domain returns its previous content unchanged when
\* the model call returned nothing or nothing can be extracted from its text,
\* and never returns None when the previous content is not None.
C22_RefinerFallsBack ==
    Returned("refiner") =>
        /\ NothingToExtract => ag.result = ag.previous
        /\ ag.previous # NoObject => ag.result # NoObject

\* a refiner with previous content returned it after the model call gave up
C22_Witness ==
    /\ Returned("refiner")
    /\ ag.previous = SomeContent
    /\ ~bk.result.some
    /\ bk.nCalls = DefaultRetries
    /\ ag.result = SomeContent

\* C23: no generator, auditor or refiner call ends in an exception that
\* leaves the agent.
C23_AgentsNeverRaise == ag.pc # "raised"

(***************************************************************************)
(* The refiner's inputs within one run (checked under Spec).               *)
(***************************************************************************)
\* C24: the refiner of attempt 2 is invoked with the best content so far and
\* the audit result obtained for that content, and in both domains its prompt
\* receives that audit result as the prior automatic analysis.
C24_RefinerGetsBestAndItsAudit ==
    \A r \in DOMAIN pl :
        pl[r].nRef > 0 =>
            /\ pl[r].refPrev # None
            /\ pl[r].refFb.bound
            /\ pl[r].refFb.of = pl[r].refPrev
            /\ pl[r].refAnalysis = pl[r].refFb

(***************************************************************************)
(* Properties of the strategy ledger (checked under SpecLedger, C29 under  *)
(* Spec).                                                                  *)
(***************************************************************************)
Ranked == rank.pc = "ranked"

\* the records of the queried product type, and what the query returned
OfQueriedType == {i \in DOMAIN ledger : ledger[i].tipo_de_produto = rank.product_type}
ReturnedRecords == rank.successful \o rank.failed

\* descending by delta, records of equal delta in the order of their insertion
InRankingOrder(seq) ==
    \A j, k \in DOMAIN seq :
        j < k => \/ seq[j].melhora_score > seq[k].melhora_score
                 \/ /\ seq[j].melhora_score = seq[k].melhora_score
                    /\ seq[j].timestamp < seq[k].timestamp

\* C27 as stated: every record of the ledger is returned by a ranking query for
\* its product type, and the records returned are in descending order of delta,
\* ties in insertion order.
C27_EveryRecordRanked ==
    Ranked =>
        /\ \A i \in OfQueriedType : \E j \in DOMAIN ReturnedRecords : ReturnedRecords[j] = ledger[i]
        /\ InRankingOrder(ReturnedRecords)

\* C27 amended: every record of the ledger is returned by a ranking query for
\* its product type whose top_n is at least the number of records of that
\* type, and the records any query returns are in descending order of delta,
\* ties in insertion order.
C27_RankedWithinTopN ==
    Ranked =>
        /\ rank.top_n >= Cardinality(OfQueriedType) =>
              \A i \in OfQueriedType :
                  \E j \in DOMAIN ReturnedRecords : ReturnedRecords[j] = ledger[i]
        /\ InRankingOrder(ReturnedRecords)

\* a query returned every record of its type, two of them with the same delta
\* and a third with a greater delta logged after them
C27_Witness ==
    /\ Ranked
    /\ Cardinality(OfQueriedType) = 3
    /\ Len(ReturnedRecords) = 3
    /\ ReturnedRecords[2].melhora_score = ReturnedRecords[3].melhora_score
    /\ ReturnedRecords[1].timestamp > ReturnedRecords[3].timestamp

\* C28: a log_strategy call with different scores appends exactly one record,
\* whose delta is score_after - score_before, and leaves the records before it
\* as they were; a call with equal scores, and every other operation, leaves
\* the ledger unchanged.
C28_LedgerAppendOnly ==
    [][ IF rank.pc = "log" /\ rank'.pc = "logged" /\ rank.after # rank.before
        THEN /\ Len(ledger') = Len(ledger) + 1
             /\ SubSeq(ledger', 1, Len(ledger)) = ledger
             /\ ledger'[Len(ledger')].melhora_score = rank.after - rank.before
             /\ ledger'[Len(ledger')].tipo_de_produto = rank.product_type
        ELSE ledger' = ledger ]_vars

\* a record was appended to a ledger that held records already
C28_Witness ==
    /\ rank.pc = "logged"
    /\ rank.after # rank.before
    /\ Len(ledger) >= 3
    /\ ledger[Len(ledger)].timestamp = Len(ledger)

\* C29: a run that ends in `done` after two audited attempts with different
\* scores has appended one record to the ledger; any other run appends none.
C29_RunLogsItsStrategy ==
    \A r \in DOMAIN pl :
        pl[r].pc = "end" =>
            IF /\ Count(stream, "done", "") = 1
               /\ Len(pl[r].audits) = 2
               /\ pl[r].audits[1].kind = "num" /\ pl[r].audits[2].kind = "num"
               /\ pl[r].audits[1].val # pl[r].audits[2].val
            THEN Len(ledger) = 1
            ELSE ledger = <<>>

(***************************************************************************)
(* Properties of the success memory (checked under SpecMemory).            *)
(***************************************************************************)
\* C30: starting from an empty memory, after any sequence of saves the memory
\* holds at most 3 entries, and they are the entries inserted last, in the
\* order of their insertion (so the entry a full memory evicts is the one
\* inserted earliest).
C30_MemoryKeepsLastThree ==
    /\ Len(memory) <= 3
    /\ Len(memory) = (IF Len(saves) < 3 THEN Len(saves) ELSE 3)
    /\ \A i \in DOMAIN memory : memory[i] = saves[Len(saves) - Len(memory) + i]

\* five entries were inserted, the last of them for the product evicted first
C30_Witness ==
    /\ Len(saves) = 5
    /\ Len(memory) = 3
    /\ saves[5].product = saves[1].product
    /\ memory[3] = saves[5]

(***************************************************************************)
(* The sleeps of one _execute_prompt_with_backoff call (checked under      *)
(* SpecBackoff).                                                           *)
(***************************************************************************)
\* C36: every backoff sleep is followed by another model call, so a call that
\* has returned after n model calls has slept n - 1 times; in particular one
\* that exhausted max_retries has slept max_retries - 1 times.
C36_NoSleepAfterLastAttempt ==
    (bk.pc = "returned" /\ bk.nCalls > 0) => Len(bk.sleeps) = bk.nCalls - 1

(***************************************************************************)
(* The two lists of a ranking query (checked under SpecLedger).            *)
(***************************************************************************)
\* the records a query considers: those of its product type, all of them when
\* there is none of that type
Considered == IF OfQueriedType = {} THEN DOMAIN ledger ELSE OfQueriedType

Smaller(a, b) == IF a < b THEN a ELSE b

Listed(list) == {i \in Considered : \E j \in DOMAIN list : list[j] = ledger[i]}

\* C37: the success list holds the (at most top_n) considered records of
\* highest positive delta, and the failure list the (at most top_n) considered
\* records of lowest non-positive delta.
C37_BestAndWorst ==
    Ranked =>
        LET wins == {i \in Considered : ledger[i].melhora_score > 0}
            losses == {i \in Considered : ledger[i].melhora_score <= 0}
        IN  /\ Listed(rank.successful) \subseteq wins
            /\ Len(rank.successful) = Smaller(rank.top_n, Cardinality(wins))
            /\ \A i \in Listed(rank.successful), k \in wins \ Listed(rank.successful) :
                  ledger[i].melhora_score >= ledger[k].melhora_score
            /\ Listed(rank.failed) \subseteq losses
            /\ Len(rank.failed) = Smaller(rank.top_n, Cardinality(losses))
            /\ \A i \in Listed(rank.failed), k \in losses \ Listed(rank.failed) :
                  ledger[i].melhora_score <= ledger[k].melhora_score

(***************************************************************************)
(* The end of a batch stream (checked under SpecBatch).                    *)
(***************************************************************************)
FinishedChunk == Chunk("finished", "", "", 0, None, 0)
NoneSucceededLog == BatchLog("none_succeeded", "warning")

\* C39: a batch that ends without a fatal error yields one `finished` event, as
\* its last event, if some row succeeded, and none otherwise, the stream then
\* ending with the warning log; no `finished` event is yielded before the end.
C39_FinishedIffSuccess ==
    /\ es.pc # "closed" => CopiesIn(FinishedChunk, yielded) = 0
    /\ (es.pc = "closed" /\ es.last # "fatal") =>
          IF \E r \in Rows : Succeeded(r)
          THEN /\ CopiesIn(FinishedChunk, yielded) = 1
               /\ CopiesIn(NoneSucceededLog, yielded) = 0
               /\ es.last = "finished"
          ELSE /\ CopiesIn(FinishedChunk, yielded) = 0
               /\ CopiesIn(NoneSucceededLog, yielded) = 1
               /\ es.last = "none_succeeded"

\* a batch whose rows were all skipped has ended with the warning
C39_Witness ==
    /\ es.pc = "closed"
    /\ es.last = "none_succeeded"
    /\ \A r \in Rows : wk[r].pc = "finished" /\ ~Succeeded(r)

(***************************************************************************)
(* The completion signal of the workers (checked under SpecBatchFair).     *)
(***************************************************************************)
SentinelsQueued == Cardinality({i \in DOMAIN queue : queue[i] = Sentinel})
FinishedWorkers == {r \in Rows : wk[r].pc = "finished"}

\* C38: a worker ends, on whatever path, by putting one sentinel, its last item
\* on the queue, and puts nothing afterwards; once the workers are started the
\* coordinator eventually has received one sentinel per row and emitted the
\* batch summary.
C38_SentinelsThenSummary ==
    /\ [](es.pc = "loop" => SentinelsQueued + es.finished_workers = Cardinality(FinishedWorkers))
    /\ [][/\ \A r \in Rows :
               /\ wk[r].pc = "finished" => wk'[r].pc = "finished"
               /\ (wk[r].pc # "finished" /\ wk'[r].pc = "finished")
                     => /\ queue' # <<>>
                        /\ queue'[Len(queue')] = Sentinel
                        /\ SentinelsQueued' = SentinelsQueued + 1
          /\ Len(queue') > Len(queue)
               => \E o \in Rows : /\ wk[o].pc # "finished"
                                  /\ <<wk'[o], pl'[o]>> # <<wk[o], pl[o]>>]_vars
    /\ (es.pc = "loop") ~> (SummaryEmitted /\ es.finished_workers = NumRows)

\* the summary was emitted after one row was skipped by an exception and
\* another succeeded
C38_Witness ==
    /\ SummaryEmitted
    /\ es.pc = "closed"
    /\ es.finished_workers = NumRows
    /\ es.reported.skipped >= 1
    /\ es.reported.success >= 1

(***************************************************************************)
(* The search permit (checked under SpecSearch).                           *)
(***************************************************************************)
Searching == {t \in Threads : gs.th[t] = "searching"}

\* C33: at most 5 search calls are in progress at any time, and every search
\* call that has ended, by returning or by raising, has given its permit back:
\* the free permits and the calls in progress always add up to 5.
C33_SearchPermitCap ==
    /\ Cardinality(Searching) <= 5
    /\ gs.permits >= 0
    /\ gs.permits + Cardinality(Searching) = 5

\* five searches are in progress and a thread waits for a permit, the search
\* that ended last having raised
C33_Witness ==
    /\ Cardinality(Searching) = 5
    /\ \E t \in Threads : gs.th[t] = "waiting"
    /\ gs.permits = 0
    /\ gs.last = "raised"

(***************************************************************************)
(* The finalize step (checked under SpecFinalize).                         *)
(***************************************************************************)
\* the text of a result has at least one character
NonEmpty(result) == result.kind = "placeholder" \/ result.nodes # <<>>

\* C32: _finalize_for_vtex always returns, and what it returns is never empty:
\* for None, a value that is no string or the empty string it is the
\* placeholder naming the product.
C32_FinalizeNeverEmpty ==
    /\ fz.pc \in {"idle", "call", "returned"}
    /\ fz.pc = "returned" =>
          /\ NonEmpty(fz.result)
          /\ (fz.html_content.type # "str" \/ fz.html_content.nodes = <<>>)
                => fz.result = [kind |-> "placeholder", product |-> fz.product_name, nodes |-> <<>>]

\* an html text of nothing but empty paragraphs and lists was finalized
C32_Witness ==
    /\ fz.pc = "returned"
    /\ fz.parsed
    /\ fz.html_content.type = "str"
    /\ Len(fz.html_content.nodes) = 2
    /\ \A i \in 1..2 : fz.html_content.nodes[i] \in {"p0", "ul0"}
    /\ fz.result.kind = "html"

(***************************************************************************)
(* The success memory and the merchant recovery run (checked under         *)
(* SpecMerchant).                                                          *)
(***************************************************************************)
\* C31 as stated: no automated run writes an entry to the success memory
\* without a human approval for the product; a merchant recovery run has no
\* step in which a person approves, so it would have to write nothing.
C31_NoAutomatedWrite == mr.pc # "idle" => saves = <<>>

\* C31 as amended: a merchant recovery run writes an entry to the success
\* memory only in the step in which the Merchant Simulator approved the
\* text of that run (status APROVADO or score of 90 or more); the entry is
\* the one of the run's product, and the run then leaves its loop.
C31_WrittenOnSimulatorApproval ==
    [][saves' # saves =>
          /\ mr.pc = "evaluate"
          /\ mr'.pc = "finalize"
          /\ mr'.status_google = "APROVADO" \/ mr'.score >= 90
          /\ mr'.status_processamento = "Recuperado (Aprovado)"
          /\ Len(saves') = Len(saves) + 1
          /\ saves'[Len(saves')].product = mr.product_name]_vars

\* a second run was approved on its score alone, after a rejection, and
\* its entry was written
C31_Witness ==
    /\ mr.pc = "returned"
    /\ mr.run = 2
    /\ mr.attempt = 2
    /\ mr.status_google = "REPROVADO"
    /\ mr.score >= 90
    /\ Len(saves) = 2
    /\ saves[2].product = mr.product_name

(***************************************************************************)
(* product_info within one run (checked under Spec).                       *)
(***************************************************************************)
\* C35 as stated: once attempt 1 of a run has begun, no step of the run
\* adds, changes or removes a key of product_info.
C35_FrozenOnceLoopBegun ==
    [][\A r \in DOMAIN pl : pl[r].attempt >= 1 => pl'[r].info = pl[r].info]_vars

\* C35 as amended: product_info is modified by additive enrichment only, and
\* all of it is performed before the generator call of attempt 1 has returned:
\* after that call no step of the run adds, changes or removes a key.
C35_FrozenOnceGenerated ==
    [][\A r \in DOMAIN pl :
          /\ pl[r].info \subseteq pl'[r].info
          /\ pl[r].nGen >= 1 => pl'[r].info = pl[r].info]_vars

\* a beauty run whose generator added the research keys was refined and
\* audited again, and has ended
C35_Witness ==
    \E r \in DOMAIN pl :
        /\ pl[r].pc = "end"
        /\ pl[r].script.ptype = "beauty"
        /\ pl[r].nRef = 1
        /\ pl[r].nAud = 2
        /\ pl[r].info =
              CallerInfo(pl[r].script)
                  \cup {"nome_base", "faq_research_context", "keyword_research_context"}
        /\ pl[r].calls[2].product_info = pl[r].info

(***************************************************************************)
(* Reprocessing (checked under SpecReprocess).                             *)
(***************************************************************************)
\* the items of the request that differ in nothing but the feedback text or
\* the previous content
DifferInReviewOnly(a, b) ==
    /\ [a EXCEPT !.feedback = "", !.previous = ""] = [b EXCEPT !.feedback = "", !.previous = ""]
    /\ a.feedback # b.feedback \/ a.previous # b.previous

\* C34: two reprocess runs that differ only in the feedback text or the
\* previous content of their items are not given identical inputs in their
\* generator and refiner calls.
C34_FeedbackReachesAgents ==
    \A i, j \in DOMAIN rp.req.items :
        (/\ rp.pc = "returned"
         /\ DifferInReviewOnly(rp.req.items[i], rp.req.items[j])
         /\ rp.presented[i] # <<>>
         /\ rp.presented[j] # <<>>)
        => rp.presented[i] # rp.presented[j]

\* C40: a failure while an item is handled, a rawJsonContent that does not
\* decode included, yields one error log for the item and the remaining items
\* are processed: when the stream of a request whose sheets were read ends,
\* every item has ended with done or with exactly one error.
C40_EveryItemHandled ==
    (rp.pc \in {"returned", "crashed"} /\ rp.req.read = "ok")
        => \A i \in DOMAIN rp.req.items :
              \/ rp.outcome[i] = "done" /\ rp.errors[i] = 0
              \/ rp.outcome[i] = "failed" /\ rp.errors[i] = 1

================================================================
